---- MODULE Spec2Model ----
(***************************************************************************)
(* Score aggregation and subject-filter engine of the 2026-CSAT dashboard  *)
(* (web/src/utils/dataTransform.js with getModelData of dataLoader.js).    *)
(*                                                                         *)
(* Names of subjects and sections are romanised, because the strings of    *)
(* the source are Korean:                                                  *)
(*   gugeo = Korean language, suhak = mathematics, yeongeo = English,      *)
(*   hanguksa = Korean history, tamgu = inquiry (exploration),             *)
(*   gongtong = common section, hwajak / eonmae = electives of gugeo,      *)
(*   hwakton / mijeok / giha = electives of suhak,                         *)
(*   mulli1 / hwahak1 / saengmyeong1 / sahoemunhwa = subjects of tamgu,    *)
(*   samun = the filter's short name of sahoemunhwa,                       *)
(*   cheyuk = a subject the hierarchy does not know.                       *)
(*                                                                         *)
(* A filter token is the sequence of its '-'-separated parts: <<"gugeo">>  *)
(* is the bare parent token, <<"gugeo", "hwajak">> the token               *)
(* "gugeo-hwajak"; s.includes('-') is Len(s) > 1 and s.split('-') is s.    *)
(*                                                                         *)
(* Numbers: the source computes in floating point and divides sums by      *)
(* counts of 1..5.  Every score of the model is an integer number of       *)
(* 1/Unit points with Unit = 60, so each of these divisions is exact.      *)
(***************************************************************************)
EXTENDS Integers, Sequences, FiniteSets, TLC

VARIABLES data, modelName, subjectFilter, scoreObj, filteredTotal, maxScore, returned,
          failed, normalized, models, tokenUsage, allScores, costData, maxCost,
          loading, error, pc, filters, filteredScores

vars == <<data, modelName, subjectFilter, scoreObj, filteredTotal, maxScore, returned,
          failed, normalized, models, tokenUsage, allScores, costData, maxCost,
          loading, error, pc, filters, filteredScores>>

\* the state of DataProvider (hooks/useData.jsx): its loading and error
\* states and the positions of the three loaders and of fetchData
provider == <<loading, error, pc>>

\* the state of Dashboard besides filters.subjects (subjectFilter): the
\* model filter and sort order, and the memoised filteredScores
dashboard == <<filters, filteredScores>>

\* the arguments the functions are called with
inputs == <<data, modelName, subjectFilter, models, tokenUsage>>

\* ---------------------------------------------------------------- numbers

Unit == 3 * 4 * 5

\* n points, in units of 1/Unit point
Pt(n) == n * Unit

\* Array.prototype.reduce((s, x) => s + x, 0) over a sequence of numbers
Sum(s) ==
  LET f[i \in 0..Len(s)] == IF i = 0 THEN 0 ELSE f[i - 1] + s[i]
  IN f[Len(s)]

\* Array.prototype.includes
Includes(s, x) == \E i \in DOMAIN s : s[i] = x

\* ---------------------------------------------------------------- constants

\* SUBJECT_MAX_SCORES[p] || 0
SUBJECT_MAX_SCORES(p) ==
  CASE p = "gugeo"    -> Pt(100)
    [] p = "suhak"    -> Pt(100)
    [] p = "yeongeo"  -> Pt(100)
    [] p = "hanguksa" -> Pt(50)
    [] p = "tamgu"    -> Pt(100)
    [] OTHER          -> 0

\* scoreObj[SUBJECT_TO_FIELD[parent]] || 0
SUBJECT_TO_FIELD(obj, parent) ==
  CASE parent = "gugeo"    -> obj.korean
    [] parent = "suhak"    -> obj.math
    [] parent = "yeongeo"  -> obj.english
    [] parent = "hanguksa" -> obj.history
    [] parent = "tamgu"    -> obj.exploration
    [] OTHER               -> 0

\* ELECTIVE_NAME_MAP[c] || c
ELECTIVE_NAME_MAP(c) == IF c = "samun" THEN "sahoemunhwa" ELSE c

\* ---------------------------------------------------------------- records

\* getModelData: data.filter(d => d.model_name === modelName)
getModelData(d, m) == SelectSeq(d, LAMBDA r : r.model_name = m)

\* _getScore matching the subject only
_getScore_AnySection(md, subject, section) ==
  LET I == {i \in DOMAIN md : md[i].subject = subject}
  IN IF I = {} THEN 0
     ELSE md[CHOOSE i \in I : \A j \in I : i <= j].score

\* _getScore: the score of the first record of that subject and section, else 0
_getScore(md, subject, section) ==
  LET I == {i \in DOMAIN md : md[i].subject = subject /\ md[i].section = section}
  IN IF I = {} THEN 0
     ELSE md[CHOOSE i \in I : \A j \in I : i <= j].score

\* detail.electives.find(e => e.name === name)?.score || 0
ScoreByName(entries, name) ==
  LET I == {i \in DOMAIN entries : entries[i].name = name}
  IN IF I = {} THEN 0
     ELSE entries[CHOOSE i \in I : \A j \in I : i <= j].score

\* the mean over all the entries, those with score 0 included
NonzeroAvg_AllEntries(entries) ==
  IF Len(entries) > 0
  THEN Sum([i \in DOMAIN entries |-> entries[i].score]) \div Len(entries)
  ELSE 0

\* the mean of the entries with score > 0, 0 when there is none
NonzeroAvg(entries) ==
  LET valid == SelectSeq(entries, LAMBDA e : e.score > 0)
  IN IF Len(valid) > 0
     THEN Sum([i \in DOMAIN valid |-> valid[i].score]) \div Len(valid)
     ELSE 0

\* _calculateSubjectScore (gugeo / suhak: common + mean of the electives)
_calculateSubjectScore(md, subject) ==
  LET common == _getScore(md, subject, "gongtong")
      electiveNames == IF subject = "gugeo"
                       THEN <<"hwajak", "eonmae">>
                       ELSE <<"hwakton", "mijeok", "giha">>
      electives == [i \in DOMAIN electiveNames |->
                      [name |-> electiveNames[i],
                       score |-> _getScore(md, subject, electiveNames[i])]]
      electiveAvg == NonzeroAvg(electives)
  IN [common |-> common, electives |-> electives,
      electiveAvg |-> electiveAvg, total |-> common + electiveAvg]

\* _calculateExplorationScore giving the raw score when one subject is valid
_calculateExplorationScore_RawSingle(md) ==
  LET explorationSubjects == <<"mulli1", "hwahak1", "saengmyeong1", "sahoemunhwa">>
      subjects == [i \in DOMAIN explorationSubjects |->
                     [name |-> explorationSubjects[i],
                      score |-> _getScore(md, explorationSubjects[i], "tamgu")]]
      average == NonzeroAvg(subjects)
      valid == SelectSeq(subjects, LAMBDA e : e.score > 0)
  IN [subjects |-> subjects, average |-> average,
      total |-> IF Len(valid) = 1 THEN average ELSE average * 2]

\* _calculateExplorationScore (tamgu: mean of the subjects, times 2)
_calculateExplorationScore(md) ==
  LET explorationSubjects == <<"mulli1", "hwahak1", "saengmyeong1", "sahoemunhwa">>
      subjects == [i \in DOMAIN explorationSubjects |->
                     [name |-> explorationSubjects[i],
                      score |-> _getScore(md, explorationSubjects[i], "tamgu")]]
      average == NonzeroAvg(subjects)
  IN [subjects |-> subjects, average |-> average, total |-> average * 2]

\* calculateOverallScore leaving history out of the total
calculateOverallScore_NoHistory(d, m) ==
  LET md == getModelData(d, m)
      korean == _calculateSubjectScore(md, "gugeo")
      math == _calculateSubjectScore(md, "suhak")
      english == _getScore(md, "yeongeo", "yeongeo")
      history == _getScore(md, "hanguksa", "hanguksa")
      exploration == _calculateExplorationScore(md)
      total == korean.total + math.total + english + exploration.total
  IN [model |-> m,
      korean |-> korean.total, koreanDetail |-> korean,
      math |-> math.total, mathDetail |-> math,
      english |-> english, history |-> history,
      exploration |-> exploration.total, explorationDetail |-> exploration,
      total |-> total]

\* calculateOverallScore
calculateOverallScore(d, m) ==
  LET md == getModelData(d, m)
      korean == _calculateSubjectScore(md, "gugeo")
      math == _calculateSubjectScore(md, "suhak")
      english == _getScore(md, "yeongeo", "yeongeo")
      history == _getScore(md, "hanguksa", "hanguksa")
      exploration == _calculateExplorationScore(md)
      total == korean.total + math.total + english + history + exploration.total
  IN [model |-> m,
      korean |-> korean.total, koreanDetail |-> korean,
      math |-> math.total, mathDetail |-> math,
      english |-> english, history |-> history,
      exploration |-> exploration.total, explorationDetail |-> exploration,
      total |-> total]

\* ---------------------------------------------------------------- filters

\* the keys of the object built by obj[parent].push(..) over toks (each a
\* compound token), in insertion order: the parents in order of first use
Keys(toks) ==
  LET f[i \in 0..Len(toks)] ==
        IF i = 0 THEN <<>>
        ELSE IF Includes(f[i - 1], toks[i][1]) THEN f[i - 1]
        ELSE Append(f[i - 1], toks[i][1])
  IN f[Len(toks)]

\* subjectFilter.filter(s => !s.includes('-')), as the parents' names
BareParents(f) ==
  LET bare == SelectSeq(f, LAMBDA s : Len(s) = 1)
  IN [i \in DOMAIN bare |-> bare[i][1]]

\* _normalizeSubjectFilter without the parentSubjects.has(parent) check
_normalizeSubjectFilter_NoParentCheck(f) ==
  IF Len(f) = 0 THEN <<>>
  ELSE
    LET compound == SelectSeq(f, LAMBDA s : Len(s) > 1)
        bare == BareParents(f)
        parentSubjects == Keys([i \in DOMAIN bare |-> <<bare[i]>>])
        parentToChildren(p) ==
          LET own == SelectSeq(compound, LAMBDA s : s[1] = p)
          IN [i \in DOMAIN own |-> own[i][2]]
        kept == Keys(compound)
    IN [i \in DOMAIN parentSubjects |-> <<parentSubjects[i]>>]
       \o [i \in DOMAIN kept |->
             IF Len(parentToChildren(kept[i])) >= 2
             THEN <<kept[i]>>
             ELSE <<kept[i], parentToChildren(kept[i])[1]>>]

\* _normalizeSubjectFilter
_normalizeSubjectFilter(f) ==
  IF Len(f) = 0 THEN <<>>
  ELSE
    LET compound == SelectSeq(f, LAMBDA s : Len(s) > 1)
        bare == BareParents(f)
        \* parentSubjects is a Set: each bare parent once, in insertion order
        parentSubjects == Keys([i \in DOMAIN bare |-> <<bare[i]>>])
        parentToChildren(p) ==
          LET own == SelectSeq(compound, LAMBDA s : s[1] = p)
          IN [i \in DOMAIN own |-> own[i][2]]
        kept == SelectSeq(Keys(compound), LAMBDA p : ~Includes(parentSubjects, p))
    IN [i \in DOMAIN parentSubjects |-> <<parentSubjects[i]>>]
       \o [i \in DOMAIN kept |->
             IF Len(parentToChildren(kept[i])) >= 2
             THEN <<kept[i]>>
             ELSE <<kept[i], parentToChildren(kept[i])[1]>>]

\* names every object literal inherits from Object.prototype: obj[name] is a
\* function (or the prototype), not undefined, for the objects built with {}
OBJECT_PROTOTYPE_KEYS ==
  {"constructor", "toString", "valueOf", "hasOwnProperty", "__proto__"}

\* getMaxScore throws a TypeError: childrenByParent[parent] is inherited, so no
\* array is stored and childrenByParent[parent].push is not a function
getMaxScoreThrows(f) ==
  \E i \in DOMAIN f :
    /\ Len(f[i]) > 1
    /\ ~Includes(BareParents(f), f[i][1])
    /\ f[i][1] \in OBJECT_PROTOTYPE_KEYS

\* getMaxScore returns a string: SUBJECT_MAX_SCORES[p] is inherited and
\* truthy, and s + (a function) concatenates
getMaxScoreConcatenates(f) ==
  \E i \in DOMAIN f : Len(f[i]) = 1 /\ f[i][1] \in OBJECT_PROTOTYPE_KEYS

\* getFilteredTotal throws a TypeError in the same way (no check of parents)
getFilteredTotalThrows(f) ==
  \E i \in DOMAIN f : Len(f[i]) > 1 /\ f[i][1] \in OBJECT_PROTOTYPE_KEYS

\* GroupMax with 50 for tamgu whatever the count
GroupMax_SingleOnly(p, count) ==
  IF p = "tamgu" THEN Pt(50) ELSE SUBJECT_MAX_SCORES(p)

\* GroupMax adding the parent's maximum once per elective token
GroupMax_PerToken(p, count) ==
  IF p = "tamgu"
  THEN (IF count = 1 THEN Pt(50) ELSE Pt(100))
  ELSE count * SUBJECT_MAX_SCORES(p)

\* getMaxScore, one key of childrenByParent: the maximum of a parent selected
\* through count of its elective tokens
GroupMax(p, count) ==
  IF p = "tamgu"
  THEN (IF count = 1 THEN Pt(50) ELSE Pt(100))
  ELSE SUBJECT_MAX_SCORES(p)

\* getMaxScore
getMaxScore(f) ==
  IF Len(f) = 0 THEN Pt(450)
  ELSE
    LET parents == BareParents(f)
        grouped == SelectSeq(f, LAMBDA s : Len(s) > 1 /\ ~Includes(parents, s[1]))
        keys == Keys(grouped)
        count(p) == Len(SelectSeq(grouped, LAMBDA s : s[1] = p))
    IN Sum([i \in DOMAIN parents |-> SUBJECT_MAX_SCORES(parents[i])])
       + Sum([i \in DOMAIN keys |-> GroupMax(keys[i], count(keys[i]))])

\* GroupTotal adding the parent's computed total for two or more elective
\* tokens, as a normalized filter would
GroupTotal_ParentTotal(obj, p, children) ==
  IF Len(children) >= 2
  THEN SUBJECT_TO_FIELD(obj, p)
  ELSE IF p = "gugeo" \/ p = "suhak"
  THEN LET detail == IF p = "gugeo" THEN obj.koreanDetail ELSE obj.mathDetail
       IN detail.common + ScoreByName(detail.electives, ELECTIVE_NAME_MAP(children[1]))
  ELSE IF p = "tamgu"
  THEN ScoreByName(obj.explorationDetail.subjects, ELECTIVE_NAME_MAP(children[1]))
  ELSE 0

\* GroupTotal adding electiveAvg, not the selected electives, for gugeo and suhak
GroupTotal_ElectiveAvg(obj, p, children) ==
  IF p = "gugeo" \/ p = "suhak"
  THEN LET detail == IF p = "gugeo" THEN obj.koreanDetail ELSE obj.mathDetail
       IN detail.common + detail.electiveAvg
  ELSE IF p = "tamgu"
  THEN LET detail == obj.explorationDetail
           subjectSum == Sum([i \in DOMAIN children |->
                           ScoreByName(detail.subjects, ELECTIVE_NAME_MAP(children[i]))])
       IN IF Len(children) = 1
          THEN subjectSum
          ELSE (subjectSum \div Len(children)) * 2
  ELSE 0

\* GroupTotal doubling the mean of the tamgu tokens also for a single token
GroupTotal_DoubledSingle(obj, p, children) ==
  IF p = "gugeo" \/ p = "suhak"
  THEN LET detail == IF p = "gugeo" THEN obj.koreanDetail ELSE obj.mathDetail
           electiveSum == Sum([i \in DOMAIN children |->
                            ScoreByName(detail.electives, ELECTIVE_NAME_MAP(children[i]))])
       IN detail.common + (electiveSum \div Len(children))
  ELSE IF p = "tamgu"
  THEN LET detail == obj.explorationDetail
           subjectSum == Sum([i \in DOMAIN children |->
                           ScoreByName(detail.subjects, ELECTIVE_NAME_MAP(children[i]))])
       IN (subjectSum \div Len(children)) * 2
  ELSE 0

\* getFilteredTotal, one entry of childrenByParent whose parent is not
\* selected as a whole: what the elective tokens children of parent p add
GroupTotal(obj, p, children) ==
  IF p = "gugeo" \/ p = "suhak"
  THEN LET detail == IF p = "gugeo" THEN obj.koreanDetail ELSE obj.mathDetail
           electiveSum == Sum([i \in DOMAIN children |->
                            ScoreByName(detail.electives, ELECTIVE_NAME_MAP(children[i]))])
       IN detail.common + (electiveSum \div Len(children))
  ELSE IF p = "tamgu"
  THEN LET detail == obj.explorationDetail
           subjectSum == Sum([i \in DOMAIN children |->
                           ScoreByName(detail.subjects, ELECTIVE_NAME_MAP(children[i]))])
       IN IF Len(children) = 1
          THEN subjectSum
          ELSE (subjectSum \div Len(children)) * 2
  ELSE 0

\* getFilteredTotal without the empty-filter case
getFilteredTotal_NoEmptyCase(obj, f) ==
  LET parents == BareParents(f)
      compound == SelectSeq(f, LAMBDA s : Len(s) > 1)
      childrenByParent(p) ==
        LET own == SelectSeq(compound, LAMBDA s : s[1] = p)
        IN [i \in DOMAIN own |-> own[i][2]]
      keys == SelectSeq(Keys(compound), LAMBDA p : ~Includes(parents, p))
  IN Sum([i \in DOMAIN parents |-> SUBJECT_TO_FIELD(obj, parents[i])])
     + Sum([i \in DOMAIN keys |-> GroupTotal(obj, keys[i], childrenByParent(keys[i]))])

\* getFilteredTotal in one pass: a bare parent suppresses only the electives
\* that come after it in the filter
getFilteredTotal_SinglePass(obj, f) ==
  IF Len(f) = 0 THEN obj.total
  ELSE
    LET parents == BareParents(f)
        late == SelectSeq([i \in DOMAIN f |-> i],
                  LAMBDA i : Len(f[i]) > 1 /\ \A j \in 1..i : f[j] # <<f[i][1]>>)
        compound == [k \in DOMAIN late |-> f[late[k]]]
        childrenByParent(p) ==
          LET own == SelectSeq(compound, LAMBDA s : s[1] = p)
          IN [i \in DOMAIN own |-> own[i][2]]
        keys == Keys(compound)
    IN Sum([i \in DOMAIN parents |-> SUBJECT_TO_FIELD(obj, parents[i])])
       + Sum([i \in DOMAIN keys |-> GroupTotal(obj, keys[i], childrenByParent(keys[i]))])

\* getFilteredTotal that also adds the elective groups of the bare parents
getFilteredTotal_NoProcessedParents(obj, f) ==
  IF Len(f) = 0 THEN obj.total
  ELSE
    LET parents == BareParents(f)
        compound == SelectSeq(f, LAMBDA s : Len(s) > 1)
        childrenByParent(p) ==
          LET own == SelectSeq(compound, LAMBDA s : s[1] = p)
          IN [i \in DOMAIN own |-> own[i][2]]
        keys == Keys(compound)
    IN Sum([i \in DOMAIN parents |-> SUBJECT_TO_FIELD(obj, parents[i])])
       + Sum([i \in DOMAIN keys |-> GroupTotal(obj, keys[i], childrenByParent(keys[i]))])

\* getFilteredTotal
getFilteredTotal(obj, f) ==
  IF Len(f) = 0 THEN obj.total
  ELSE
    LET parents == BareParents(f)
        compound == SelectSeq(f, LAMBDA s : Len(s) > 1)
        childrenByParent(p) ==
          LET own == SelectSeq(compound, LAMBDA s : s[1] = p)
          IN [i \in DOMAIN own |-> own[i][2]]
        \* processedParents holds exactly the bare parents
        keys == SelectSeq(Keys(compound), LAMBDA p : ~Includes(parents, p))
    IN Sum([i \in DOMAIN parents |-> SUBJECT_TO_FIELD(obj, parents[i])])
       + Sum([i \in DOMAIN keys |-> GroupTotal(obj, keys[i], childrenByParent(keys[i]))])

\* ---------------------------------------------------------------- all models
\* a sort that puts an entry before the entries of equal total
SortByTotalDesc_TiesReversed(s) ==
  LET f[i \in 0..Len(s)] ==
        IF i = 0 THEN <<>>
        ELSE LET acc == f[i - 1]
                 pos == Cardinality({k \in DOMAIN acc : acc[k].total > s[i].total})
             IN SubSeq(acc, 1, pos) \o <<s[i]>> \o SubSeq(acc, pos + 1, Len(acc))
  IN f[Len(s)]

\* .sort((a, b) => b.total - a.total): Array.prototype.sort is stable, so an
\* entry goes behind the entries whose total is greater or equal
SortByTotalDesc(s) ==
  LET f[i \in 0..Len(s)] ==
        IF i = 0 THEN <<>>
        ELSE LET acc == f[i - 1]
                 pos == Cardinality({k \in DOMAIN acc : acc[k].total >= s[i].total})
             IN SubSeq(acc, 1, pos) \o <<s[i]>> \o SubSeq(acc, pos + 1, Len(acc))
  IN f[Len(s)]

\* calculateAllModelScores that leaves the unfiltered total in place
calculateAllModelScores_KeepTotal(d, ms, f) ==
  SortByTotalDesc([i \in DOMAIN ms |-> calculateOverallScore(d, ms[i])])

\* calculateAllModelScores
calculateAllModelScores(d, ms, f) ==
  SortByTotalDesc(
    [i \in DOMAIN ms |->
       LET scores == calculateOverallScore(d, ms[i])
       IN IF Len(f) > 0
          THEN [scores EXCEPT !.total = getFilteredTotal(scores, f)]
          ELSE scores])

\* ---------------------------------------------------------------- cost
\* the divisor of the prices, which are per million tokens; the model keeps
\* every cost multiplied by it, so a cost of 1 is Million
Million == 1000000

\* the price of the last priced record of the model
PriceOf_LastWins(d, m) ==
  LET priced == SelectSeq(d, LAMBDA r : r.model_name = m /\ Len(r.price) > 0)
  IN IF Len(priced) = 0 THEN [input |-> 0, output |-> 0]
     ELSE priced[Len(priced)].price[1]

\* priceMap[m] || { input: 0, output: 0 }: the price of the first record of
\* the model that has one; price is <<>> for null, <<[input, output]>> otherwise
PriceOf(d, m) ==
  LET priced == SelectSeq(d, LAMBDA r : r.model_name = m /\ Len(r.price) > 0)
  IN IF Len(priced) = 0 THEN [input |-> 0, output |-> 0]
     ELSE priced[1].price[1]

\* sectionKey.startsWith(subject + '-') || sectionKey === subject, on the
\* '-'-separated parts of the two strings
Matches(sectionKey, subject) ==
  /\ Len(subject) <= Len(sectionKey)
  /\ SubSeq(sectionKey, 1, Len(subject)) = subject

\* the tokens of the sections a filter token matches, added per filter token
SectionTokens(sections, f, field) ==
  Sum([i \in DOMAIN f |->
         Sum([k \in DOMAIN sections |->
                IF Matches(sections[k].key, f[i])
                THEN IF field = "input" THEN sections[k].input_tokens
                     ELSE sections[k].output_tokens
                ELSE 0])])

\* tokenUsage[model] || {}
UsageOf(tu, m) ==
  IF m \in DOMAIN tu THEN tu[m]
  ELSE [total_input_tokens |-> 0, total_output_tokens |-> 0,
        hasSections |-> FALSE, sections |-> <<>>]

\* one row of results: prices, tokens and cost of a score entry
CostRow(d, score, tu, f) ==
  LET price == PriceOf(d, score.model)
      usage == UsageOf(tu, score.model)
      inputTokens ==
        IF Len(f) > 0
        THEN IF ~usage.hasSections THEN 0
             ELSE SectionTokens(usage.sections, f, "input")
        ELSE usage.total_input_tokens
      outputTokens ==
        IF Len(f) > 0
        THEN IF ~usage.hasSections THEN 0
             ELSE SectionTokens(usage.sections, f, "output")
        ELSE usage.total_output_tokens
  IN [model |-> score.model,
      score |-> score.total,
      inputPrice |-> price.input,
      outputPrice |-> price.output,
      inputTokens |-> inputTokens,
      outputTokens |-> outputTokens,
      totalCost |-> inputTokens * price.input + outputTokens * price.output]

\* results without the models that have no sections while a filter is active
CostRows_DropNoSections(d, scores, tu, f) ==
  LET kept == SelectSeq(scores,
                LAMBDA sc : Len(f) = 0 \/ UsageOf(tu, sc.model).hasSections)
  IN [i \in DOMAIN kept |-> CostRow(d, kept[i], tu, f)]

\* results: overallScores.map(...).filter(Boolean); every element is an
\* object, so the filter drops none
CostRows(d, scores, tu, f) ==
  [i \in DOMAIN scores |-> CostRow(d, scores[i], tu, f)]

\* the smallest of the positive costs and 1
MaxCost_Smallest(rows) ==
  LET C == {rows[i].totalCost : i \in {i \in DOMAIN rows : rows[i].totalCost > 0}}
          \cup {Million}
  IN CHOOSE c \in C : \A e \in C : c <= e

\* Math.max(...results.map(r => r.totalCost).filter(c => c > 0), 1)
MaxCost(rows) ==
  LET C == {rows[i].totalCost : i \in {i \in DOMAIN rows : rows[i].totalCost > 0}}
          \cup {Million}
  IN CHOOSE c \in C : \A e \in C : c >= e

RECURSIVE GCD(_, _)
GCD(a, b) == IF b = 0 THEN a ELSE GCD(b, a % b)

\* the fraction n/d in lowest terms (d > 0)
Fraction(n, d) == [num |-> n \div GCD(n, d), den |-> d \div GCD(n, d)]

\* Math.max(0, Math.min(1, score / SCORE_MAX)) as a fraction; 0/0 is NaN,
\* written as the fraction 0/0, and x/0 with x > 0 is Infinity, clamped to 1
ScoreNorm(score, SCORE_MAX) ==
  IF SCORE_MAX = 0
  THEN IF score > 0 THEN [num |-> 1, den |-> 1] ELSE [num |-> 0, den |-> 0]
  ELSE Fraction(IF score < 0 THEN 0
                ELSE IF score > SCORE_MAX THEN SCORE_MAX ELSE score,
                SCORE_MAX)

\* (scoreNorm * 0.7 + (1 - costNorm) * 0.3) * 100 as a fraction num/den
Efficiency(r, mc, SCORE_MAX) ==
  IF r.totalCost <= 0 THEN [num |-> 0, den |-> 1]
  ELSE LET scoreNorm == ScoreNorm(r.score, SCORE_MAX)
           costNorm == Fraction(r.totalCost, mc)
       IN [num |-> 70 * scoreNorm.num * costNorm.den
                   + 30 * (costNorm.den - costNorm.num) * scoreNorm.den,
           den |-> scoreNorm.den * costNorm.den]

\* getCostData that normalizes the score by the maximum of the whole exam
getCostData_FullMax(d, overallScores, tu, f) ==
  LET results == CostRows(d, overallScores, tu, f)
      mc == MaxCost(results)
      SCORE_MAX == getMaxScore(<<>>)
  IN [i \in DOMAIN results |->
        [model |-> results[i].model,
         score |-> results[i].score,
         inputPrice |-> results[i].inputPrice,
         outputPrice |-> results[i].outputPrice,
         inputTokens |-> results[i].inputTokens,
         outputTokens |-> results[i].outputTokens,
         totalCost |-> results[i].totalCost,
         efficiency |-> Efficiency(results[i], mc, SCORE_MAX)]]

\* getCostData
getCostData(d, overallScores, tu, f) ==
  LET results == CostRows(d, overallScores, tu, f)
      mc == MaxCost(results)
      SCORE_MAX == getMaxScore(f)
  IN [i \in DOMAIN results |->
        [model |-> results[i].model,
         score |-> results[i].score,
         inputPrice |-> results[i].inputPrice,
         outputPrice |-> results[i].outputPrice,
         inputTokens |-> results[i].inputTokens,
         outputTokens |-> results[i].outputTokens,
         totalCost |-> results[i].totalCost,
         efficiency |-> Efficiency(results[i], mc, SCORE_MAX)]]

\* ---------------------------------------------------------------- inputs

MaxRecords == 2

MaxFilterLen == 3

\* the subject/section pairs calculateOverallScore reads, in its order, with
\* the section's maximum and one partial score (in points)
SECTIONS ==
  << [subject |-> "gugeo",        section |-> "gongtong", max |-> 76,  part |-> 70],
     [subject |-> "gugeo",        section |-> "hwajak",   max |-> 24,  part |-> 20],
     [subject |-> "gugeo",        section |-> "eonmae",   max |-> 24,  part |-> 18],
     [subject |-> "suhak",        section |-> "gongtong", max |-> 74,  part |-> 70],
     [subject |-> "suhak",        section |-> "hwakton",  max |-> 26,  part |-> 24],
     [subject |-> "suhak",        section |-> "mijeok",   max |-> 26,  part |-> 20],
     [subject |-> "suhak",        section |-> "giha",     max |-> 26,  part |-> 22],
     [subject |-> "yeongeo",      section |-> "yeongeo",  max |-> 100, part |-> 90],
     [subject |-> "hanguksa",     section |-> "hanguksa", max |-> 50,  part |-> 45],
     [subject |-> "mulli1",       section |-> "tamgu",    max |-> 50,  part |-> 40],
     [subject |-> "hwahak1",      section |-> "tamgu",    max |-> 50,  part |-> 30],
     [subject |-> "saengmyeong1", section |-> "tamgu",    max |-> 50,  part |-> 35],
     [subject |-> "sahoemunhwa",  section |-> "tamgu",    max |-> 50,  part |-> 25] >>

\* the records of model m with pts[i] points in SECTIONS[i]; no record where pts[i] < 0
Records(m, pts) ==
  LET present == SelectSeq([i \in DOMAIN SECTIONS |-> i], LAMBDA i : pts[i] >= 0)
  IN [k \in DOMAIN present |->
        [model_name |-> m,
         subject |-> SECTIONS[present[k]].subject,
         section |-> SECTIONS[present[k]].section,
         score |-> Pt(pts[present[k]])]]

Absent == 0 - 1

Level(i, l) ==
  CASE l = "zero" -> 0
    [] l = "part" -> SECTIONS[i].part
    [] l = "max"  -> SECTIONS[i].max

\* every record set of one model with at most MaxRecords records, each
\* scoring zero, the partial score or the maximum of its section
BoundedDatasets ==
  UNION { { Records("m1", [i \in DOMAIN SECTIONS |->
                             IF i \in K THEN Level(i, v[i]) ELSE Absent])
            : v \in [K -> {"zero", "part", "max"}] }
          : K \in {K \in SUBSET DOMAIN SECTIONS : Cardinality(K) <= MaxRecords} }

NoRecords == [i \in DOMAIN SECTIONS |-> Absent]

FullMarks == [i \in DOMAIN SECTIONS |-> SECTIONS[i].max]

ScenarioA == <<76, 20, 0, 70, 24, Absent, Absent, Absent, Absent, Absent, Absent, Absent, Absent>>

ScenarioC == <<Absent, Absent, Absent, Absent, Absent, Absent, Absent, Absent, Absent, 40, 30, Absent, Absent>>

ScenarioP4 == <<70, 0, 18, 74, Absent, Absent, Absent, 90, Absent, 40, Absent, Absent, Absent>>

ScenarioMixed == <<70, 20, 18, 60, 24, 20, 22, 90, 45, 40, 30, 50, 20>>

ScenarioPartial == <<76, 24, Absent, 74, 26, 0, 20, 100, 50, 50, 0, Absent, 30>>

Scenarios == {NoRecords, FullMarks, ScenarioA, ScenarioC, ScenarioP4, ScenarioMixed, ScenarioPartial}

\* the records of another model come first in the data
OtherModel == Records("m2", <<60, 24, 24, 74, 26, 26, 26, 100, 50, 50, 50, 50, 50>>)

ScenarioDatasets == { OtherModel \o Records("m1", sc) : sc \in Scenarios }

\* the tokens of the hierarchy, the filter's short name samun, and a bare and
\* a compound token of a parent the hierarchy does not know
TOKENS ==
  << <<"gugeo">>, <<"suhak">>, <<"yeongeo">>, <<"hanguksa">>, <<"tamgu">>,
     <<"gugeo", "hwajak">>, <<"gugeo", "eonmae">>,
     <<"suhak", "hwakton">>, <<"suhak", "mijeok">>, <<"suhak", "giha">>,
     <<"tamgu", "mulli1">>, <<"tamgu", "hwahak1">>, <<"tamgu", "saengmyeong1">>,
     <<"tamgu", "sahoemunhwa">>, <<"tamgu", "samun">>,
     <<"cheyuk">>, <<"cheyuk", "sugu">> >>

\* the filters that are sets of at most MaxFilterLen tokens
BoundedFilters ==
  { SelectSeq(TOKENS, LAMBDA t : t \in S)
    : S \in {S \in SUBSET {TOKENS[i] : i \in DOMAIN TOKENS} : Cardinality(S) <= MaxFilterLen} }

\* no filter, and every parent selected
WholeFilters ==
  { <<>>, << <<"gugeo">>, <<"suhak">>, <<"yeongeo">>, <<"hanguksa">>, <<"tamgu">> >> }

Null == "null"

\* ---------------------------------------------------------------- behaviour

Init ==
  /\ \/ /\ data \in ScenarioDatasets
        /\ modelName \in {"m1", "m3"}
        /\ subjectFilter \in BoundedFilters
     \/ /\ data \in BoundedDatasets
        /\ modelName = "m1"
        /\ subjectFilter \in WholeFilters
  /\ models = <<>>
  /\ tokenUsage = Null
  /\ scoreObj = Null
  /\ filteredTotal = Null
  /\ maxScore = Null
  /\ normalized = Null
  /\ allScores = Null
  /\ costData = Null
  /\ maxCost = Null
  /\ loading = Null
  /\ error = Null
  /\ pc = Null
  /\ filters = Null
  /\ filteredScores = Null
  /\ returned = {}
  /\ failed = {}

CalculateOverallScore ==
  /\ scoreObj' = calculateOverallScore(data, modelName)
  /\ returned' = returned \cup {"calculateOverallScore"}
  /\ UNCHANGED <<inputs, filteredTotal, maxScore, failed, normalized, allScores, costData, maxCost,
               provider, dashboard>>

GetFilteredTotal ==
  /\ "calculateOverallScore" \in returned
  /\ IF Len(subjectFilter) > 0 /\ getFilteredTotalThrows(subjectFilter)
     THEN /\ failed' = failed \cup {<<"getFilteredTotal", "TypeError">>}
          /\ UNCHANGED <<filteredTotal, returned>>
     ELSE /\ filteredTotal' = getFilteredTotal(scoreObj, subjectFilter)
          /\ returned' = returned \cup {"getFilteredTotal"}
          /\ UNCHANGED failed
  /\ UNCHANGED <<inputs, scoreObj, maxScore, normalized, allScores, costData, maxCost,
               provider, dashboard>>

GetMaxScore ==
  /\ IF Len(subjectFilter) > 0 /\ getMaxScoreThrows(subjectFilter)
     THEN /\ failed' = failed \cup {<<"getMaxScore", "TypeError">>}
          /\ UNCHANGED <<maxScore, returned>>
     ELSE IF Len(subjectFilter) > 0 /\ getMaxScoreConcatenates(subjectFilter)
     THEN /\ failed' = failed \cup {<<"getMaxScore", "string">>}
          /\ UNCHANGED <<maxScore, returned>>
     ELSE /\ maxScore' = getMaxScore(subjectFilter)
          /\ returned' = returned \cup {"getMaxScore"}
          /\ UNCHANGED failed
  /\ UNCHANGED <<inputs, scoreObj, filteredTotal, normalized, allScores, costData, maxCost,
               provider, dashboard>>

Next ==
  \/ CalculateOverallScore
  \/ GetFilteredTotal
  \/ GetMaxScore

Spec == Init /\ [][Next]_vars

\* tokens whose parent the hierarchy does not know; two of the parents are
\* names of Object.prototype
UNRECOGNIZED_TOKENS ==
  << <<"cheyuk">>, <<"cheyuk", "sugu">>, <<"constructor">>, <<"toString", "sugu">> >>

\* a filter of at most MaxFilterLen tokens with one or two unrecognized tokens added
UnrecognizedFilters ==
  { SelectSeq(TOKENS, LAMBDA t : t \in S) \o SelectSeq(UNRECOGNIZED_TOKENS, LAMBDA t : t \in U)
    : S \in {S \in SUBSET {TOKENS[i] : i \in DOMAIN TOKENS} : Cardinality(S) <= MaxFilterLen},
      U \in {U \in SUBSET {UNRECOGNIZED_TOKENS[i] : i \in DOMAIN UNRECOGNIZED_TOKENS} :
               Cardinality(U) \in 1..2} }

InitTokens ==
  /\ data = OtherModel \o Records("m1", ScenarioMixed)
  /\ modelName = "m1"
  /\ subjectFilter \in UnrecognizedFilters
  /\ models = <<>>
  /\ tokenUsage = Null
  /\ scoreObj = Null
  /\ filteredTotal = Null
  /\ maxScore = Null
  /\ normalized = Null
  /\ allScores = Null
  /\ costData = Null
  /\ maxCost = Null
  /\ loading = Null
  /\ error = Null
  /\ pc = Null
  /\ filters = Null
  /\ filteredScores = Null
  /\ returned = {}
  /\ failed = {}

SpecTokens == InitTokens /\ [][Next]_vars

\* the filters of at most MaxFilterLen distinct tokens, in every order
OrderedFilters ==
  LET T == {TOKENS[i] : i \in DOMAIN TOKENS}
  IN UNION {{f \in [1..n -> T] : \A i, j \in 1..n : i # j => f[i] # f[j]}
            : n \in 0..MaxFilterLen}

InitNormalize ==
  /\ data = <<>>
  /\ modelName = "m1"
  /\ subjectFilter \in OrderedFilters
  /\ models = <<>>
  /\ tokenUsage = Null
  /\ scoreObj = Null
  /\ filteredTotal = Null
  /\ maxScore = Null
  /\ normalized = Null
  /\ allScores = Null
  /\ costData = Null
  /\ maxCost = Null
  /\ loading = Null
  /\ error = Null
  /\ pc = Null
  /\ filters = Null
  /\ filteredScores = Null
  /\ returned = {}
  /\ failed = {}

NormalizeSubjectFilter ==
  /\ normalized' = _normalizeSubjectFilter(subjectFilter)
  /\ returned' = returned \cup {"_normalizeSubjectFilter"}
  /\ UNCHANGED <<inputs, scoreObj, filteredTotal, maxScore, failed, allScores, costData, maxCost,
               provider, dashboard>>

NextNormalize == NormalizeSubjectFilter

SpecNormalize == InitNormalize /\ [][NextNormalize]_vars

MaxModels == 3

MODEL_NAMES == <<"m1", "m2", "m3", "m4">>

\* the records of m1, m2 and m3, each with the scores of one scenario; m4 has
\* no record
ModelDatasets ==
  LET Choice == {NoRecords, ScenarioA, ScenarioMixed}
  IN { Records("m1", a) \o Records("m2", b) \o Records("m3", c)
       : a \in Choice, b \in Choice, c \in Choice }

\* the lists of at most MaxModels distinct models, in every order
ModelLists ==
  LET M == {MODEL_NAMES[i] : i \in DOMAIN MODEL_NAMES}
  IN UNION {{l \in [1..n -> M] : \A i, j \in 1..n : i # j => l[i] # l[j]}
            : n \in 0..MaxModels}

\* no filter, each single token, and some filters of several tokens
SampleFilters ==
  {f \in BoundedFilters : Len(f) <= 1}
  \cup { << <<"gugeo", "hwajak">>, <<"gugeo", "eonmae">> >>,
         << <<"suhak">>, <<"tamgu", "mulli1">>, <<"tamgu", "samun">> >>,
         << <<"gugeo">>, <<"gugeo", "hwajak">> >> }

InitAll ==
  /\ data \in ModelDatasets
  /\ modelName = "m1"
  /\ subjectFilter \in SampleFilters
  /\ models \in ModelLists
  /\ tokenUsage = Null
  /\ scoreObj = Null
  /\ filteredTotal = Null
  /\ maxScore = Null
  /\ normalized = Null
  /\ allScores = Null
  /\ costData = Null
  /\ maxCost = Null
  /\ loading = Null
  /\ error = Null
  /\ pc = Null
  /\ filters = Null
  /\ filteredScores = Null
  /\ returned = {}
  /\ failed = {}

CalculateAllModelScores ==
  /\ allScores' = calculateAllModelScores(data, models, subjectFilter)
  /\ returned' = returned \cup {"calculateAllModelScores"}
  /\ UNCHANGED <<inputs, scoreObj, filteredTotal, maxScore, failed, normalized, costData, maxCost,
               provider, dashboard>>

NextAll == CalculateAllModelScores

SpecAll == InitAll /\ [][NextAll]_vars

\* two price entries, in dollars per million tokens
PriceA == [input |-> 3, output |-> 15]

PriceB == [input |-> 1, output |-> 5]

\* the price field of the k-th record of a model: <<>> stands for null
PriceAt(pattern, k) ==
  CASE pattern = "none"     -> <<>>
    [] pattern = "all"      -> <<PriceA>>
    [] pattern = "free"     -> <<[input |-> 0, output |-> 0]>>
    [] pattern = "later"    -> IF k = 1 THEN <<>> ELSE IF k = 2 THEN <<PriceA>> ELSE <<PriceB>>
    [] pattern = "changing" -> IF k = 1 THEN <<PriceB>> ELSE <<PriceA>>

\* the records of model m with their price fields
PricedRecords(m, pts, pattern) ==
  LET rs == Records(m, pts)
  IN [k \in DOMAIN rs |->
        [model_name |-> rs[k].model_name,
         subject |-> rs[k].subject,
         section |-> rs[k].section,
         score |-> rs[k].score,
         price |-> PriceAt(pattern, k)]]

\* the sections of a token-usage entry, keyed "parent-child" or "parent"; the
\* last one is of a subject the hierarchy does not know
UsageSections(scale) ==
  << [key |-> <<"gugeo", "gongtong">>, input_tokens |-> 40 * scale, output_tokens |-> 4 * scale],
     [key |-> <<"gugeo", "hwajak">>,   input_tokens |-> 10 * scale, output_tokens |-> scale],
     [key |-> <<"suhak", "gongtong">>, input_tokens |-> 50 * scale, output_tokens |-> 5 * scale],
     [key |-> <<"yeongeo">>,           input_tokens |-> 30 * scale, output_tokens |-> 3 * scale],
     [key |-> <<"tamgu", "mulli1">>,   input_tokens |-> 20 * scale, output_tokens |-> 2 * scale],
     [key |-> <<"cheyuk">>,            input_tokens |-> 10 * scale, output_tokens |-> scale] >>

\* a token-usage entry: with small sections, with large sections, or with
\* the totals only
Usage(kind) ==
  LET scale == IF kind = "small" THEN 1000 ELSE 100000
      secs == UsageSections(scale)
  IN [total_input_tokens |-> Sum([k \in DOMAIN secs |-> secs[k].input_tokens]),
      total_output_tokens |-> Sum([k \in DOMAIN secs |-> secs[k].output_tokens]),
      hasSections |-> kind # "totals",
      sections |-> IF kind = "totals" THEN <<>> ELSE secs]

\* what the data and the token usage hold for one model
PROFILES ==
  { [price |-> "all",      usage |-> "large"],
    [price |-> "later",    usage |-> "small"],
    [price |-> "none",     usage |-> "large"],
    [price |-> "all",      usage |-> "totals"],
    [price |-> "all",      usage |-> "absent"],
    [price |-> "changing", usage |-> "small"],
    [price |-> "free",     usage |-> "large"] }

TokenUsageOf(p1, p2) ==
  LET kind == [m \in {"m1", "m2"} |-> IF m = "m1" THEN p1.usage ELSE p2.usage]
  IN [m \in {m \in {"m1", "m2"} : kind[m] # "absent"} |-> Usage(kind[m])]

CostFilters ==
  { <<>>,
    << <<"gugeo">> >>,
    << <<"gugeo", "hwajak">> >>,
    << <<"yeongeo">> >>,
    << <<"cheyuk">> >>,
    << <<"gugeo">>, <<"suhak", "mijeok">> >>,
    << <<"tamgu", "mulli1">>, <<"tamgu", "samun">> >>,
    << <<"gugeo">>, <<"gugeo", "hwajak">> >> }

InitCost ==
  /\ \E p1 \in PROFILES, p2 \in PROFILES :
       /\ data = PricedRecords("m1", ScenarioMixed, p1.price)
                   \o PricedRecords("m2", ScenarioA, p2.price)
       /\ tokenUsage = TokenUsageOf(p1, p2)
  /\ modelName = "m1"
  /\ subjectFilter \in CostFilters
  /\ models \in ModelLists
  /\ scoreObj = Null
  /\ filteredTotal = Null
  /\ maxScore = Null
  /\ normalized = Null
  /\ allScores = Null
  /\ costData = Null
  /\ maxCost = Null
  /\ loading = Null
  /\ error = Null
  /\ pc = Null
  /\ filters = Null
  /\ filteredScores = Null
  /\ returned = {}
  /\ failed = {}

\* getCostData with the scores calculateAllModelScores returned; maxCost is
\* the function's local constant of that name
GetCostData ==
  /\ "calculateAllModelScores" \in returned
  /\ costData' = getCostData(data, allScores, tokenUsage, subjectFilter)
  /\ maxCost' = MaxCost(CostRows(data, allScores, tokenUsage, subjectFilter))
  /\ returned' = returned \cup {"getCostData"}
  /\ UNCHANGED <<inputs, scoreObj, filteredTotal, maxScore, failed, normalized, allScores,
               provider, dashboard>>

NextCost ==
  \/ CalculateAllModelScores
  \/ GetCostData

SpecCost == InitCost /\ [][NextCost]_vars

\* the filters in every order, over the data of two scenarios
InitOrder ==
  /\ data \in { OtherModel \o Records("m1", sc) : sc \in {ScenarioMixed, ScenarioPartial} }
  /\ modelName = "m1"
  /\ subjectFilter \in OrderedFilters
  /\ models = <<>>
  /\ tokenUsage = Null
  /\ scoreObj = Null
  /\ filteredTotal = Null
  /\ maxScore = Null
  /\ normalized = Null
  /\ allScores = Null
  /\ costData = Null
  /\ maxCost = Null
  /\ loading = Null
  /\ error = Null
  /\ pc = Null
  /\ filters = Null
  /\ filteredScores = Null
  /\ returned = {}
  /\ failed = {}

SpecOrder == InitOrder /\ [][Next]_vars

\* the selection of SubjectFilter with every subject checked: every elective
\* token of gugeo, suhak and tamgu, and the bare tokens yeongeo and hanguksa
ALL_SELECTED ==
  << <<"gugeo", "hwajak">>, <<"gugeo", "eonmae">>,
     <<"suhak", "hwakton">>, <<"suhak", "mijeok">>, <<"suhak", "giha">>,
     <<"yeongeo">>, <<"hanguksa">>,
     <<"tamgu", "mulli1">>, <<"tamgu", "hwahak1">>, <<"tamgu", "saengmyeong1">>,
     <<"tamgu", "sahoemunhwa">> >>

InitEverything ==
  /\ data \in ScenarioDatasets \cup BoundedDatasets
  /\ modelName = "m1"
  /\ subjectFilter = ALL_SELECTED
  /\ models = <<>>
  /\ tokenUsage = Null
  /\ scoreObj = Null
  /\ filteredTotal = Null
  /\ maxScore = Null
  /\ normalized = Null
  /\ allScores = Null
  /\ costData = Null
  /\ maxCost = Null
  /\ loading = Null
  /\ error = Null
  /\ pc = Null
  /\ filters = Null
  /\ filteredScores = Null
  /\ returned = {}
  /\ failed = {}

SpecEverything == InitEverything /\ [][Next]_vars

\* ---------------------------------------------------------------- SubjectFilter
\* SUBJECT_HIERARCHY: the electives of a parent
SUBJECT_HIERARCHY(parent) ==
  CASE parent = "gugeo" -> <<"hwajak", "eonmae">>
    [] parent = "suhak" -> <<"hwakton", "mijeok", "giha">>
    [] parent = "tamgu" -> <<"mulli1", "hwahak1", "saengmyeong1", "sahoemunhwa">>
    [] OTHER -> <<>>

PARENT_SUBJECTS == <<"gugeo", "suhak", "yeongeo", "hanguksa", "tamgu">>

\* children.map(c => `${parent}-${c}`)
ChildKeys(parent) ==
  [i \in DOMAIN SUBJECT_HIERARCHY(parent) |-> <<parent, SUBJECT_HIERARCHY(parent)[i]>>]

\* getParentState
getParentState(selected, parent) ==
  LET children == SUBJECT_HIERARCHY(parent)
      selectedCount == Len(SelectSeq(ChildKeys(parent), LAMBDA k : Includes(selected, k)))
  IN IF Len(children) = 0
     THEN IF Includes(selected, <<parent>>) THEN "checked" ELSE "unchecked"
     ELSE IF selectedCount = 0 THEN "unchecked"
     ELSE IF selectedCount = Len(children) THEN "checked"
     ELSE "indeterminate"

\* handleParentToggle that clears the electives as soon as one is selected
handleParentToggle_ClearsPartial(selected, parent) ==
  LET children == SUBJECT_HIERARCHY(parent)
      childKeys == ChildKeys(parent)
      someSelected == \E i \in DOMAIN childKeys : Includes(selected, childKeys[i])
      filtered == SelectSeq(selected, LAMBDA t : ~Includes(childKeys, t) /\ t # <<parent>>)
  IN IF Len(children) = 0
     THEN IF Includes(selected, <<parent>>)
          THEN SelectSeq(selected, LAMBDA t : t # <<parent>>)
          ELSE Append(selected, <<parent>>)
     ELSE IF someSelected THEN filtered ELSE filtered \o childKeys

\* handleParentToggle: the array passed to onChange
handleParentToggle(selected, parent) ==
  LET children == SUBJECT_HIERARCHY(parent)
      childKeys == ChildKeys(parent)
      allSelected == \A i \in DOMAIN childKeys : Includes(selected, childKeys[i])
      filtered == SelectSeq(selected, LAMBDA t : ~Includes(childKeys, t) /\ t # <<parent>>)
  IN IF Len(children) = 0
     THEN IF Includes(selected, <<parent>>)
          THEN SelectSeq(selected, LAMBDA t : t # <<parent>>)
          ELSE Append(selected, <<parent>>)
     ELSE IF allSelected THEN filtered ELSE filtered \o childKeys

\* handleChildToggle that appends without looking
handleChildToggle_AlwaysAdds(selected, parent, child) ==
  Append(selected, <<parent, child>>)

\* handleChildToggle: the array passed to onChange
handleChildToggle(selected, parent, child) ==
  LET fullName == <<parent, child>>
  IN IF Includes(selected, fullName)
     THEN SelectSeq(selected, LAMBDA t : t # fullName)
     ELSE Append(selected, fullName)

MaxSelected == 4

\* the component right after the Dashboard mounted: nothing selected
InitUI ==
  /\ data = <<>>
  /\ modelName = "m1"
  /\ subjectFilter = <<>>
  /\ models = <<>>
  /\ tokenUsage = Null
  /\ scoreObj = Null
  /\ filteredTotal = Null
  /\ maxScore = Null
  /\ normalized = Null
  /\ allScores = Null
  /\ costData = Null
  /\ maxCost = Null
  /\ loading = Null
  /\ error = Null
  /\ pc = Null
  /\ filters = Null
  /\ filteredScores = Null
  /\ returned = {}
  /\ failed = {}

\* a click on a parent's checkbox; onChange stores the array in filters.subjects
HandleParentToggle(parent) ==
  /\ Len(handleParentToggle(subjectFilter, parent)) <= MaxSelected
  /\ subjectFilter' = handleParentToggle(subjectFilter, parent)
  /\ UNCHANGED <<data, modelName, models, tokenUsage, scoreObj, filteredTotal, maxScore,
                 returned, failed, normalized, allScores, costData, maxCost,
                 provider, dashboard>>

\* a click on an elective's checkbox
HandleChildToggle(parent, child) ==
  /\ Len(handleChildToggle(subjectFilter, parent, child)) <= MaxSelected
  /\ subjectFilter' = handleChildToggle(subjectFilter, parent, child)
  /\ UNCHANGED <<data, modelName, models, tokenUsage, scoreObj, filteredTotal, maxScore,
                 returned, failed, normalized, allScores, costData, maxCost,
                 provider, dashboard>>

NextUI ==
  \/ \E i \in DOMAIN PARENT_SUBJECTS : HandleParentToggle(PARENT_SUBJECTS[i])
  \/ \E i \in DOMAIN PARENT_SUBJECTS :
       \E k \in DOMAIN SUBJECT_HIERARCHY(PARENT_SUBJECTS[i]) :
         HandleChildToggle(PARENT_SUBJECTS[i], SUBJECT_HIERARCHY(PARENT_SUBJECTS[i])[k])

SpecUI == InitUI /\ [][NextUI]_vars

\* ---------------------------------------------------------------- DataProvider
\* hooks/useData.jsx with the loaders of utils/dataLoader.js.  A loader is
\* an async function: pc holds where each one stands and, once its promise
\* is settled, what it settled with.  The events of a loader are the
\* outcomes of its fetch and of response.json().

\* the object {} : useState({}) and what loadTokenUsage returns on a failure
EmptyObject == [m \in {} |-> Null]

\* what the server's all_results.json and token_usage.json may hold
ServedResults ==
  { PricedRecords("m1", ScenarioMixed, "all") \o PricedRecords("m2", ScenarioA, "later"),
    PricedRecords("m2", ScenarioPartial, "all") }

ServedUsage ==
  { TokenUsageOf([usage |-> "large"], [usage |-> "small"]),
    TokenUsageOf([usage |-> "totals"], [usage |-> "absent"]) }

\* response.status of a response that is not ok
FailureStatus == {"404", "500"}

\* `load failed: ${response.status}`
LoadFailedMessage(status) ==
  IF status = "404" THEN "load failed: 404" ELSE "load failed: 500"

\* a pending promise, a fulfilled one and a rejected one; a promise that is
\* not fulfilled has no value, written none: <<>> where the value would be
\* an array and {} where it would be an object
Pending(at, none) == [state |-> at, value |-> none, isArray |-> FALSE, message |-> Null]

Fulfilled(v, arr) == [state |-> "fulfilled", value |-> v, isArray |-> arr, message |-> Null]

Rejected(msg, none) ==
  [state |-> "rejected", value |-> none, isArray |-> FALSE, message |-> msg]

Settled(p) == p.state \in {"fulfilled", "rejected"}

\* loadAllResults: a response that is not ok throws, a failure of fetch or
\* of response.json() rejects the promise as well; the parsed JSON is
\* returned whatever it is (one that is no array holds no records)
LoadAllResultsEvents(p) ==
  IF p.state = "fetching"
  THEN {[kind |-> "fetchFailed"], [kind |-> "ok"]}
       \cup {[kind |-> "notOk", status |-> st] : st \in FailureStatus}
  ELSE {[kind |-> "jsonFailed"], [kind |-> "notArray"]}
       \cup {[kind |-> "array", records |-> d] : d \in ServedResults}

loadAllResults(p, ev) ==
  IF p.state = "fetching"
  THEN CASE ev.kind = "fetchFailed" -> Rejected("Failed to fetch", <<>>)
         [] ev.kind = "notOk" -> Rejected(LoadFailedMessage(ev.status), <<>>)
         [] OTHER -> Pending("parsing", <<>>)
  ELSE CASE ev.kind = "jsonFailed" -> Rejected("Unexpected token", <<>>)
         [] ev.kind = "notArray" -> Fulfilled(<<>>, FALSE)
         [] OTHER -> Fulfilled(ev.records, TRUE)

\* loadTokenUsage: every failure is caught and gives {}; console.warn is
\* called when the response is not ok and in the catch block
LoadTokenUsageWarns(ev) == ev.kind \in {"fetchFailed", "notOk", "jsonFailed"}

LoadTokenUsageEvents(p) ==
  IF p.state = "fetching"
  THEN {[kind |-> "fetchFailed"], [kind |-> "notOk"], [kind |-> "ok"]}
  ELSE {[kind |-> "jsonFailed"], [kind |-> "noModels"]}
       \cup {[kind |-> "models", models |-> u] : u \in ServedUsage}

loadTokenUsage_Rethrows(p, ev) ==
  IF p.state = "fetching"
  THEN CASE ev.kind = "fetchFailed" -> Rejected("Failed to fetch", EmptyObject)
         [] ev.kind = "notOk" -> Fulfilled(EmptyObject, FALSE)
         [] OTHER -> Pending("parsing", EmptyObject)
  ELSE CASE ev.kind = "jsonFailed" -> Rejected("Unexpected token", EmptyObject)
         [] ev.kind = "noModels" -> Fulfilled(EmptyObject, FALSE)
         [] OTHER -> Fulfilled(ev.models, FALSE)

loadTokenUsage(p, ev) ==
  IF p.state = "fetching"
  THEN CASE ev.kind = "fetchFailed" -> Fulfilled(EmptyObject, FALSE)
         [] ev.kind = "notOk" -> Fulfilled(EmptyObject, FALSE)
         [] OTHER -> Pending("parsing", EmptyObject)
  ELSE CASE ev.kind = "jsonFailed" -> Fulfilled(EmptyObject, FALSE)
         [] ev.kind = "noModels" -> Fulfilled(EmptyObject, FALSE)
         [] OTHER -> Fulfilled(ev.models, FALSE)

\* loadQuestionsMetadata: an async function, so its promise is fulfilled
\* or rejected
LoadQuestionsMetadataEvents == {[kind |-> "fulfilled"], [kind |-> "rejected"]}

loadQuestionsMetadata(p, ev) ==
  IF ev.kind = "fulfilled" THEN Fulfilled(EmptyObject, FALSE)
  ELSE Rejected("questions failed", EmptyObject)

\* extractUniqueValues(data).models: the model names, each once, in the
\* order of their first record
extractUniqueValues(d) ==
  LET first == {k \in DOMAIN d : \A j \in 1..(k - 1) : d[j].model_name # d[k].model_name}
      Nth(i) == CHOOSE k \in first : Cardinality({j \in first : j < k}) = i - 1
  IN [i \in 1..Cardinality(first) |-> d[Nth(i)].model_name]

\* Promise.all of the three promises: rejected as soon as one of them is,
\* fulfilled when all of them are
PromiseAll(ps) ==
  IF \E k \in DOMAIN ps : ps[k].state = "rejected" THEN "rejected"
  ELSE IF \A k \in DOMAIN ps : ps[k].state = "fulfilled" THEN "fulfilled"
  ELSE "pending"

\* the provider after the mount: the effect has called fetchData, which has
\* called the three loaders and awaits Promise.all
InitProvider ==
  /\ data = <<>>
  /\ tokenUsage = EmptyObject
  /\ models = <<>>
  /\ loading = TRUE
  /\ error = Null
  /\ pc = [results |-> Pending("fetching", <<>>),
           usage |-> Pending("fetching", EmptyObject),
           questions |-> Pending("pending", EmptyObject), fetchData |-> "awaiting",
           warned |-> FALSE]
  /\ modelName = "m1"
  /\ subjectFilter = <<>>
  /\ scoreObj = Null
  /\ filteredTotal = Null
  /\ maxScore = Null
  /\ normalized = Null
  /\ allScores = Null
  /\ costData = Null
  /\ maxCost = Null
  /\ filters = Null
  /\ filteredScores = Null
  /\ returned = {}
  /\ failed = {}

\* fetchData once a loader has settled with the positions q: nothing while
\* it still awaits; the catch block on a rejection, with the error of the
\* promise that has just rejected; else the try block, in which
\* extractUniqueValues throws when the parsed JSON is not an array (the
\* setters called before it have taken effect)
FetchData(q, rejection) ==
  IF pc.fetchData # "awaiting" \/ PromiseAll(<<q.results, q.usage, q.questions>>) = "pending"
  THEN pc' = q /\ UNCHANGED <<data, tokenUsage, models, loading, error>>
  ELSE /\ pc' = [q EXCEPT !.fetchData = "done"]
       /\ loading' = FALSE
       /\ IF PromiseAll(<<q.results, q.usage, q.questions>>) = "rejected"
          THEN /\ error' = rejection.message
               /\ UNCHANGED <<data, tokenUsage, models>>
          ELSE /\ data' = q.results.value
               /\ tokenUsage' = q.usage.value
               /\ IF q.results.isArray
                  THEN /\ models' = extractUniqueValues(q.results.value)
                       /\ UNCHANGED error
                  ELSE /\ error' = "data.map is not a function"
                       /\ UNCHANGED models

Untouched ==
  UNCHANGED <<modelName, subjectFilter, scoreObj, filteredTotal, maxScore, returned,
              failed, normalized, allScores, costData, maxCost, dashboard>>

\* the fetch of all_results.json, or the parsing of its body, completes
LoadAllResults ==
  /\ ~Settled(pc.results)
  /\ \E ev \in LoadAllResultsEvents(pc.results) :
       LET p == loadAllResults(pc.results, ev)
       IN FetchData([pc EXCEPT !.results = p], p)
  /\ Untouched

\* the fetch of token_usage.json, or the parsing of its body, completes
LoadTokenUsage ==
  /\ ~Settled(pc.usage)
  /\ \E ev \in LoadTokenUsageEvents(pc.usage) :
       LET p == loadTokenUsage(pc.usage, ev)
       IN FetchData([pc EXCEPT !.usage = p,
                               !.warned = pc.warned \/ LoadTokenUsageWarns(ev)], p)
  /\ Untouched

\* the promise of loadQuestionsMetadata settles
LoadQuestionsMetadata ==
  /\ ~Settled(pc.questions)
  /\ \E ev \in LoadQuestionsMetadataEvents :
       LET p == loadQuestionsMetadata(pc.questions, ev)
       IN FetchData([pc EXCEPT !.questions = p], p)
  /\ Untouched

NextProvider ==
  \/ LoadAllResults
  \/ LoadTokenUsage
  \/ LoadQuestionsMetadata

SpecProvider == InitProvider /\ [][NextProvider]_vars

\* every request of the browser completes, and so does every promise
SpecProviderFair ==
  /\ SpecProvider
  /\ WF_vars(LoadAllResults)
  /\ WF_vars(LoadTokenUsage)
  /\ WF_vars(LoadQuestionsMetadata)

\* ---------------------------------------------------------------- Dashboard
\* The Dashboard of App.jsx: filters is React state (filters.subjects is the
\* variable subjectFilter; filters.showDetail, which only shows or hides the
\* electives' checkboxes, is left out), data, models and tokenUsage come from the
\* provider, and overallScores (allScores), maxScore, filteredScores and
\* costData are memoised with useMemo.

\* Array.prototype.sort, which is stable, with a comparator that compares
\* the keys key[i] of the entries s[i]: an entry goes behind the entries
\* whose key is not greater
SortStable(s, key) ==
  LET f[i \in 0..Len(s)] ==
        IF i = 0 THEN <<>>
        ELSE LET acc == f[i - 1]
                 pos == Cardinality({k \in DOMAIN acc : key[acc[k]] <= key[i]})
             IN SubSeq(acc, 1, pos) \o <<i>> \o SubSeq(acc, pos + 1, Len(acc))
      order == f[Len(s)]
  IN [k \in DOMAIN s |-> s[order[k]]]

\* a.localeCompare(b) < 0 for the model names, which MODEL_NAMES lists in
\* this order
NameRank(m) == CHOOSE i \in DOMAIN MODEL_NAMES : MODEL_NAMES[i] = m

\* the vendors of colorUtils.js; no pattern matches a name of MODEL_NAMES, so
\* findIndex gives -1 and the index used is VENDORS.length
VENDORS == <<"openai", "google", "anthropic", "xai", "deepseek", "lg", "other">>

VendorIndex(m) == Len(VENDORS)

\* the options of the sort select that the model selects
SortChoices == {"score_desc", "score_asc"}

\* the switch on filters.sortBy
SortedBy(result, sortBy) ==
  CASE sortBy = "score_asc" ->
         SortStable(result, [k \in DOMAIN result |-> result[k].total])
    [] sortBy = "name_asc" ->
         SortStable(result, [k \in DOMAIN result |-> NameRank(result[k].model)])
    [] sortBy = "name_desc" ->
         SortStable(result, [k \in DOMAIN result |-> 0 - NameRank(result[k].model)])
    [] sortBy = "vendor" ->
         SortStable(result, [k \in DOMAIN result |->
           VendorIndex(result[k].model) * (Len(MODEL_NAMES) + 1) - NameRank(result[k].model)])
    [] OTHER -> SortStable(result, [k \in DOMAIN result |-> 0 - result[k].total])

\* the memo with let result = overallScores: without a model filter the
\* sort is a sort of overallScores itself
computeFilteredScores_InPlace(overallScores, flt) ==
  LET result == IF Len(flt.models) > 0
                THEN SelectSeq(overallScores, LAMBDA sc : Includes(flt.models, sc.model))
                ELSE overallScores
      sorted == SortedBy(result, flt.sortBy)
  IN [result |-> sorted,
      overallScores |-> IF Len(flt.models) > 0 THEN overallScores ELSE sorted]

\* the body of the filteredScores memo: what it returns, and the
\* overallScores array after it ran.  The sort is in place, on the copy
\* [...overallScores] or on the array filter returned.
computeFilteredScores(overallScores, flt) ==
  LET copy == overallScores
      result == IF Len(flt.models) > 0
                THEN SelectSeq(copy, LAMBDA sc : Includes(flt.models, sc.model))
                ELSE copy
  IN [result |-> SortedBy(result, flt.sortBy), overallScores |-> overallScores]

\* the dependency lists of the four memos
OverallScoresDeps_NoSubjects == {"data", "models"}

OverallScoresDeps == {"data", "models", "filters.subjects"}

MaxScoreDeps == {"filters.subjects"}

FilteredScoresDeps == {"overallScores", "filters"}

CostDataDeps == {"data", "filteredScores", "tokenUsage", "filters.subjects"}

\* useMemo: the cached value unless a dependency has changed
useMemo(cached, fresh, deps, changed) ==
  IF deps \cap changed # {} THEN fresh ELSE cached

\* a memo that was recomputed is a new array for the memos that depend on it
Mark(name, deps, changed) ==
  IF deps \cap changed # {} THEN changed \cup {name} ELSE changed

\* the bodies of the overallScores and costData memos
computeOverallScores(d, ms, subjects) ==
  IF Len(d) = 0 \/ Len(ms) = 0 THEN <<>> ELSE calculateAllModelScores(d, ms, subjects)

computeCostData(d, fs, tu, subjects) ==
  IF Len(d) = 0 \/ Len(fs) = 0 THEN <<>> ELSE getCostData(d, fs, tu, subjects)

\* a render of the Dashboard with the state subjects and flt, of which the
\* parts named in changed are new objects
Render(changed, subjects, flt) ==
  LET overall == useMemo(allScores, computeOverallScores(data, models, subjects),
                         OverallScoresDeps, changed)
      c1 == Mark("overallScores", OverallScoresDeps, changed)
      fresh == computeFilteredScores(overall, flt)
      c2 == Mark("filteredScores", FilteredScoresDeps, c1)
      filtered == useMemo(filteredScores, fresh.result, FilteredScoresDeps, c1)
  IN /\ allScores' = useMemo(overall, fresh.overallScores, FilteredScoresDeps, c1)
     /\ maxScore' = useMemo(maxScore, getMaxScore(subjects), MaxScoreDeps, c1)
     /\ filteredScores' = filtered
     /\ costData' = useMemo(costData, computeCostData(data, filtered, tokenUsage, subjects),
                            CostDataDeps, c2)

\* getDefaultSelectedModels: of each vendor's models, by name descending and
\* then by score descending, the first min(max(1, floor(n / 2)), 4); all
\* names of MODEL_NAMES are of the vendor "other"
getDefaultSelectedModels(ms, scoreData) ==
  LET total(m) == IF \E k \in DOMAIN scoreData : scoreData[k].model = m
                  THEN (CHOOSE sc \in {scoreData[k] : k \in DOMAIN scoreData} : sc.model = m).total
                  ELSE 0
      byName == SortStable(ms, [k \in DOMAIN ms |-> 0 - NameRank(ms[k])])
      sorted == SortStable(byName, [k \in DOMAIN byName |-> 0 - total(byName[k])])
      half == Len(ms) \div 2
      atLeast1 == IF half > 1 THEN half ELSE 1
      limit == IF atLeast1 < 4 THEN atLeast1 ELSE 4
  IN IF Len(ms) = 0 THEN <<>> ELSE SubSeq(sorted, 1, limit)

\* ModelFilter.jsx: the array passed to onChange
handleModelToggle(selected, model) ==
  IF Includes(selected, model) THEN SelectSeq(selected, LAMBDA m : m # model)
  ELSE Append(selected, model)

handleSelectAll(selected, ms) ==
  IF Len(selected) = Len(ms) THEN <<>> ELSE ms

MaxShown == 2

\* what the provider has loaded
DashboardData ==
  { [data |-> PricedRecords("m1", ScenarioP4, "all") \o PricedRecords("m2", ScenarioA, "later"),
     tokenUsage |-> TokenUsageOf([usage |-> "large"], [usage |-> "small"])] }

\* the Dashboard once the provider has loaded and the effect has set the
\* default models: nothing else has been chosen
InitDashboard ==
  /\ \E loaded \in DashboardData :
       /\ data = loaded.data
       /\ tokenUsage = loaded.tokenUsage
  /\ models = extractUniqueValues(data)
  /\ loading = FALSE
  /\ error = Null
  /\ pc = Null
  /\ subjectFilter = <<>>
  /\ filters = [models |-> getDefaultSelectedModels(models,
                                calculateAllModelScores(data, models, <<>>)),
                sortBy |-> "score_desc"]
  /\ allScores = computeOverallScores(data, models, subjectFilter)
  /\ maxScore = getMaxScore(subjectFilter)
  /\ filteredScores = computeFilteredScores(allScores, filters).result
  /\ costData = computeCostData(data, filteredScores, tokenUsage, subjectFilter)
  /\ modelName = "m1"
  /\ scoreObj = Null
  /\ filteredTotal = Null
  /\ normalized = Null
  /\ maxCost = Null
  /\ returned = {}
  /\ failed = {}

Props ==
  UNCHANGED <<data, models, tokenUsage, modelName, scoreObj, filteredTotal, returned,
              failed, normalized, maxCost, provider>>

\* a click on a parent's checkbox of the subject filter, and the render
SelectParent(parent) ==
  /\ Len(handleParentToggle(subjectFilter, parent)) <= MaxShown
  /\ subjectFilter' = handleParentToggle(subjectFilter, parent)
  /\ Render({"filters", "filters.subjects"}, subjectFilter', filters)
  /\ UNCHANGED filters
  /\ Props

\* a click on an elective's checkbox
SelectChild(parent, child) ==
  /\ Len(handleChildToggle(subjectFilter, parent, child)) <= MaxShown
  /\ subjectFilter' = handleChildToggle(subjectFilter, parent, child)
  /\ Render({"filters", "filters.subjects"}, subjectFilter', filters)
  /\ UNCHANGED filters
  /\ Props

\* a click on a model's checkbox
SelectModel(model) ==
  /\ filters' = [filters EXCEPT !.models = handleModelToggle(filters.models, model)]
  /\ Render({"filters", "filters.models"}, subjectFilter, filters')
  /\ UNCHANGED subjectFilter
  /\ Props

\* select all / deselect all
SelectAll ==
  /\ filters' = [filters EXCEPT !.models = handleSelectAll(filters.models, models)]
  /\ Render({"filters", "filters.models"}, subjectFilter, filters')
  /\ UNCHANGED subjectFilter
  /\ Props

\* the sort select
SelectSort(sortBy) ==
  /\ sortBy # filters.sortBy
  /\ filters' = [filters EXCEPT !.sortBy = sortBy]
  /\ Render({"filters", "filters.sortBy"}, subjectFilter, filters')
  /\ UNCHANGED subjectFilter
  /\ Props

NextDashboard ==
  \/ \E i \in DOMAIN PARENT_SUBJECTS : SelectParent(PARENT_SUBJECTS[i])
  \/ \E i \in DOMAIN PARENT_SUBJECTS :
       \E k \in DOMAIN SUBJECT_HIERARCHY(PARENT_SUBJECTS[i]) :
         SelectChild(PARENT_SUBJECTS[i], SUBJECT_HIERARCHY(PARENT_SUBJECTS[i])[k])
  \/ \E i \in DOMAIN models : SelectModel(models[i])
  \/ SelectAll
  \/ \E sortBy \in SortChoices : SelectSort(sortBy)

SpecDashboard == InitDashboard /\ [][NextDashboard]_vars

\* ---------------------------------------------------------------- properties

Scored == "calculateOverallScore" \in returned

Filtered == "getFilteredTotal" \in returned

Maxed == "getMaxScore" \in returned

\* the filter as the set of its tokens
FilterSet == {subjectFilter[i] : i \in DOMAIN subjectFilter}

HasBare(p) == <<p>> \in FilterSet

\* the elective tokens "p-child" of parent p in the filter
ElectiveTokens(p) == {t \in FilterSet : Len(t) > 1 /\ t[1] = p}

\* the score the data holds for modelName in a subject and section, 0 if none
DataScore(subject, section) ==
  LET R == {i \in DOMAIN data : /\ data[i].model_name = modelName
                                /\ data[i].subject = subject
                                /\ data[i].section = section}
  IN IF R = {} THEN 0 ELSE data[CHOOSE i \in R : TRUE].score

\* the raw score of the elective an elective token names
Raw(t) ==
  LET name == IF t[2] = "samun" THEN "sahoemunhwa" ELSE t[2]
  IN IF t[1] = "tamgu" THEN DataScore(name, "tamgu") ELSE DataScore(t[1], name)

RECURSIVE SumRaw(_)
SumRaw(S) ==
  IF S = {} THEN 0
  ELSE LET t == CHOOSE t \in S : TRUE IN Raw(t) + SumRaw(S \ {t})

\* what the tokens of parent p add to filteredTotal: the total less the
\* total of the filter without the tokens of p
Contribution(p) ==
  LET rest == SelectSeq(subjectFilter, LAMBDA t : t[1] # p)
  IN filteredTotal - (IF Len(rest) = 0 THEN 0 ELSE getFilteredTotal(scoreObj, rest))

DataOf(sc) == OtherModel \o Records("m1", sc)

\* C1 -- maximum bound: a filtered total never exceeds the maximum of its filter.
C1_MaxBound == (Filtered /\ Maxed) => filteredTotal <= maxScore

C1_Witness ==
  /\ Filtered /\ Maxed
  /\ \E p \in {"gugeo", "suhak", "tamgu"} : ElectiveTokens(p) # {} /\ ~HasBare(p)
  /\ filteredTotal = maxScore
  /\ filteredTotal > 0

\* no parent is selected through two or more elective tokens without its bare token
NoCollapse ==
  \A t \in FilterSet : HasBare(t[1]) \/ Cardinality(ElectiveTokens(t[1])) <= 1

C3_SingleElective ==
  Filtered =>
    /\ \A p \in {"gugeo", "suhak"} :
         (~HasBare(p) /\ Cardinality(ElectiveTokens(p)) = 1) =>
           Contribution(p) = DataScore(p, "gongtong") + SumRaw(ElectiveTokens(p))
    /\ (data = DataOf(ScenarioA) /\ modelName = "m1"
          /\ subjectFilter = << <<"gugeo", "hwajak">> >>) => filteredTotal = Pt(96)

C3_Witness ==
  /\ Filtered
  /\ data = DataOf(ScenarioMixed) /\ modelName = "m1"
  /\ subjectFilter = << <<"gugeo", "hwajak">> >>
  /\ filteredTotal = Pt(90)
  /\ filteredTotal # scoreObj.korean

\* C4 -- tamgu elective tokens without the bare token: one token adds the raw
\* score of its subject, k >= 2 tokens add 2 * (sum of their scores / k);
\* Scenario C gives 40 and 70.
C4_ExplorationTokens ==
  Filtered =>
    /\ (~HasBare("tamgu") /\ Cardinality(ElectiveTokens("tamgu")) = 1) =>
         Contribution("tamgu") = SumRaw(ElectiveTokens("tamgu"))
    /\ (~HasBare("tamgu") /\ Cardinality(ElectiveTokens("tamgu")) >= 2) =>
         Cardinality(ElectiveTokens("tamgu")) * Contribution("tamgu")
           = 2 * SumRaw(ElectiveTokens("tamgu"))
    /\ (data = DataOf(ScenarioC) /\ modelName = "m1"
          /\ subjectFilter = << <<"tamgu", "mulli1">> >>) => filteredTotal = Pt(40)

C4_Witness ==
  /\ Filtered
  /\ data = DataOf(ScenarioC) /\ modelName = "m1"
  /\ subjectFilter = << <<"tamgu", "mulli1">>, <<"tamgu", "hwahak1">> >>
  /\ filteredTotal = Pt(70)

\* C5 -- the maximum of a non-empty filter: the fixed maximum of each bare
\* parent token; 50 for one tamgu elective token and 100 for two or more, when
\* tamgu is not selected as a whole; 100 once for each of gugeo and suhak that
\* is selected through elective tokens only.
C5_MaxScoreSum ==
  (Maxed /\ Len(subjectFilter) > 0) =>
    maxScore =
        Sum([i \in DOMAIN TOKENS |->
               IF Len(TOKENS[i]) = 1 /\ TOKENS[i] \in FilterSet
               THEN SUBJECT_MAX_SCORES(TOKENS[i][1]) ELSE 0])
      + (IF HasBare("tamgu") \/ ElectiveTokens("tamgu") = {} THEN 0
         ELSE IF Cardinality(ElectiveTokens("tamgu")) = 1 THEN Pt(50) ELSE Pt(100))
      + (IF HasBare("gugeo") \/ ElectiveTokens("gugeo") = {} THEN 0 ELSE Pt(100))
      + (IF HasBare("suhak") \/ ElectiveTokens("suhak") = {} THEN 0 ELSE Pt(100))

C5_Witness ==
  /\ Maxed
  /\ ~HasBare("suhak") /\ Cardinality(ElectiveTokens("suhak")) = 2
  /\ HasBare("hanguksa")
  /\ maxScore = Pt(150)

\* C6 -- empty-filter identity: with no filter the filtered total is the
\* score object's total and the maximum is 450, the sum of the parents' maxima.
C6_EmptyFilterIdentity ==
  /\ (Filtered /\ subjectFilter = <<>>) => filteredTotal = scoreObj.total
  /\ (Maxed /\ subjectFilter = <<>>) =>
       /\ maxScore = Pt(450)
       /\ maxScore = SUBJECT_MAX_SCORES("gugeo") + SUBJECT_MAX_SCORES("suhak")
                       + SUBJECT_MAX_SCORES("yeongeo") + SUBJECT_MAX_SCORES("hanguksa")
                       + SUBJECT_MAX_SCORES("tamgu")

C6_Witness ==
  /\ Filtered /\ Maxed
  /\ subjectFilter = <<>>
  /\ filteredTotal = scoreObj.total
  /\ filteredTotal > 0
  /\ maxScore = Pt(450)

\* the number of entries with a score > 0, and the sum of their scores
NonzeroCount(entries) == Cardinality({i \in DOMAIN entries : entries[i].score > 0})

NonzeroSum(entries) ==
  Sum([i \in DOMAIN entries |-> IF entries[i].score > 0 THEN entries[i].score ELSE 0])

\* a detail object of gugeo or suhak averages only its nonzero electives
NonzeroElectiveMean(subject, detail) ==
  /\ \A i \in DOMAIN detail.electives :
       detail.electives[i].score = DataScore(subject, detail.electives[i].name)
  /\ detail.common = DataScore(subject, "gongtong")
  /\ NonzeroCount(detail.electives) = 0 => detail.electiveAvg = 0
  /\ NonzeroCount(detail.electives) > 0 =>
       detail.electiveAvg * NonzeroCount(detail.electives) = NonzeroSum(detail.electives)
  /\ detail.total = detail.common + detail.electiveAvg

\* C7 -- electiveAvg of gugeo and suhak is the mean of the electives with a
\* score > 0 only (scores 0 and 18 give 18), 0 when there is none, and the
\* parent total is common + electiveAvg.
C7_NonzeroElectiveAvg ==
  Scored =>
    /\ NonzeroElectiveMean("gugeo", scoreObj.koreanDetail)
    /\ NonzeroElectiveMean("suhak", scoreObj.mathDetail)
    /\ scoreObj.korean = scoreObj.koreanDetail.total
    /\ scoreObj.math = scoreObj.mathDetail.total
    /\ (data = DataOf(ScenarioP4) /\ modelName = "m1") =>
         scoreObj.koreanDetail.electiveAvg = Pt(18)

C7_Witness ==
  /\ Scored
  /\ data = DataOf(ScenarioP4) /\ modelName = "m1"
  /\ scoreObj.koreanDetail.electives[1].score = 0
  /\ scoreObj.koreanDetail.electives[2].score = Pt(18)
  /\ scoreObj.koreanDetail.electiveAvg = Pt(18)
  /\ scoreObj.korean = Pt(88)

\* the tamgu subjects of the score object hold the data's scores
ExplorationFromData ==
  \A i \in DOMAIN scoreObj.explorationDetail.subjects :
    scoreObj.explorationDetail.subjects[i].score
      = DataScore(scoreObj.explorationDetail.subjects[i].name, "tamgu")

\* C8 (as claimed) -- tamgu in the unfiltered score: the raw score when exactly
\* one subject has a nonzero score, 2 * the mean of the nonzero subjects when
\* two or more have, 0 when none has.
C8_RawForOne ==
  Scored =>
    LET subjects == scoreObj.explorationDetail.subjects
        n == NonzeroCount(subjects)
    IN /\ ExplorationFromData
       /\ n = 0 => scoreObj.exploration = 0
       /\ n = 1 => scoreObj.exploration = NonzeroSum(subjects)
       /\ n >= 2 => scoreObj.exploration * n = 2 * NonzeroSum(subjects)

\* C8 (amended) -- tamgu in the unfiltered score is 2 * the mean of the
\* subjects with a nonzero score, also when exactly one subject has one (twice
\* its raw score), and 0 when none has.
C8_DoubledMean ==
  Scored =>
    LET subjects == scoreObj.explorationDetail.subjects
        n == NonzeroCount(subjects)
    IN /\ ExplorationFromData
       /\ n = 0 => scoreObj.exploration = 0
       /\ n >= 1 => scoreObj.exploration * n = 2 * NonzeroSum(subjects)
       /\ scoreObj.exploration = scoreObj.explorationDetail.total

C8_Witness ==
  /\ Scored
  /\ NonzeroCount(scoreObj.explorationDetail.subjects) = 1
  /\ scoreObj.explorationDetail.subjects[1].score = Pt(40)
  /\ scoreObj.exploration = Pt(80)

\* C9 -- the total of a score object is korean + math + english + history +
\* exploration of the same object; Scenario A gives 96 + 94 = 190.
C9_TotalIsSum ==
  Scored =>
    /\ scoreObj.total = scoreObj.korean + scoreObj.math + scoreObj.english
                          + scoreObj.history + scoreObj.exploration
    /\ (data = DataOf(ScenarioA) /\ modelName = "m1") =>
         /\ scoreObj.korean = Pt(96)
         /\ scoreObj.math = Pt(94)
         /\ scoreObj.total = Pt(190)

C9_Witness ==
  /\ Scored
  /\ data = DataOf(ScenarioA) /\ modelName = "m1"
  /\ scoreObj.korean = Pt(96) /\ scoreObj.math = Pt(94)
  /\ scoreObj.english = 0 /\ scoreObj.history = 0 /\ scoreObj.exploration = 0
  /\ scoreObj.total = Pt(190)

\* the data holds no record of modelName for SECTIONS[i]
AbsentSection(i) ==
  \A k \in DOMAIN data :
    ~(/\ data[k].model_name = modelName
      /\ data[k].subject = SECTIONS[i].subject
      /\ data[k].section = SECTIONS[i].section)

\* the score the score object holds for SECTIONS[i]
SectionScore(i) ==
  CASE i = 1       -> scoreObj.koreanDetail.common
    [] i \in 2..3  -> scoreObj.koreanDetail.electives[i - 1].score
    [] i = 4       -> scoreObj.mathDetail.common
    [] i \in 5..7  -> scoreObj.mathDetail.electives[i - 4].score
    [] i = 8       -> scoreObj.english
    [] i = 9       -> scoreObj.history
    [] OTHER       -> scoreObj.explorationDetail.subjects[i - 9].score

\* C10 -- missing data is no error: every absent subject/section contributes
\* 0, and a model without records gets total 0 and filtered total 0 under
\* every filter.
C10_MissingDataIsZero ==
  /\ Scored =>
       /\ \A i \in DOMAIN SECTIONS : AbsentSection(i) => SectionScore(i) = 0
       /\ (\A i \in DOMAIN SECTIONS : AbsentSection(i)) =>
            /\ scoreObj.total = 0
            /\ scoreObj.korean = 0 /\ scoreObj.math = 0 /\ scoreObj.english = 0
            /\ scoreObj.history = 0 /\ scoreObj.exploration = 0
  /\ (Filtered /\ \A i \in DOMAIN SECTIONS : AbsentSection(i)) => filteredTotal = 0

C10_Witness ==
  /\ Filtered
  /\ modelName = "m3"
  /\ Len(data) > 0
  /\ Len(subjectFilter) > 1
  /\ \A i \in DOMAIN SECTIONS : AbsentSection(i)
  /\ scoreObj.total = 0
  /\ filteredTotal = 0

\* a token whose parent is one of the five parents of the hierarchy
Recognized(t) == t[1] \in {"gugeo", "suhak", "yeongeo", "hanguksa", "tamgu"}

\* the filter without its unrecognized tokens
RecognizedPart == SelectSeq(subjectFilter, Recognized)

\* C11 -- unrecognized filter tokens are ignored: a token whose parent is not
\* one of the five parents adds 0 to the filtered total and to the maximum and
\* never makes a call throw, so adding it to a non-empty filter changes neither.
C11_UnrecognizedIgnored ==
  /\ failed = {}
  /\ (Filtered /\ Len(RecognizedPart) > 0) =>
       filteredTotal = getFilteredTotal(scoreObj, RecognizedPart)
  /\ (Maxed /\ Len(RecognizedPart) > 0) => maxScore = getMaxScore(RecognizedPart)
  /\ (Filtered /\ Len(subjectFilter) > 0 /\ Len(RecognizedPart) = 0) => filteredTotal = 0
  /\ (Maxed /\ Len(subjectFilter) > 0 /\ Len(RecognizedPart) = 0) => maxScore = 0

\* the filter without the elective tokens "p-child" of parent p
WithoutElectives(p) == SelectSeq(subjectFilter, LAMBDA t : ~(Len(t) > 1 /\ t[1] = p))

\* C12 -- no double counting: when the filter holds the bare token of a parent
\* p, the filtered total and the maximum are those of the filter without the
\* elective tokens of p.
C12_BareSuppressesElectives ==
  \A p \in {"gugeo", "suhak", "yeongeo", "hanguksa", "tamgu", "cheyuk"} :
    HasBare(p) =>
      /\ Filtered => filteredTotal = getFilteredTotal(scoreObj, WithoutElectives(p))
      /\ Maxed => maxScore = getMaxScore(WithoutElectives(p))

\* bare gugeo next to a gugeo elective with a nonzero score, both values computed
C12_Witness ==
  /\ Filtered
  /\ Maxed
  /\ HasBare("gugeo")
  /\ \E t \in ElectiveTokens("gugeo") : Raw(t) > 0
  /\ filteredTotal > 0

Normalized == "_normalizeSubjectFilter" \in returned

\* the tokens of the normalized filter
NormalizedSet == {normalized[i] : i \in DOMAIN normalized}

\* C13 -- the parent token dominates in normalization: with the bare token of
\* p in the filter the result is the one of the filter without the electives
\* of p, and holds p once and no elective of p; two or more electives of p
\* without the bare token collapse to the bare token; a single elective stays.
C13_ParentDominates ==
  Normalized =>
    \A p \in {"gugeo", "suhak", "yeongeo", "hanguksa", "tamgu", "cheyuk"} :
      /\ HasBare(p) =>
           /\ normalized = _normalizeSubjectFilter(WithoutElectives(p))
           /\ Cardinality({i \in DOMAIN normalized : normalized[i] = <<p>>}) = 1
           /\ \A t \in NormalizedSet : ~(Len(t) > 1 /\ t[1] = p)
      /\ (~HasBare(p) /\ Cardinality(ElectiveTokens(p)) >= 2) =>
           /\ Cardinality({i \in DOMAIN normalized : normalized[i] = <<p>>}) = 1
           /\ \A t \in NormalizedSet : ~(Len(t) > 1 /\ t[1] = p)
      /\ (~HasBare(p) /\ Cardinality(ElectiveTokens(p)) = 1) =>
           /\ \A t \in ElectiveTokens(p) :
                Cardinality({i \in DOMAIN normalized : normalized[i] = t}) = 1
           /\ <<p>> \notin NormalizedSet

\* bare gugeo with both of its electives normalizes to the bare token alone
C13_Witness ==
  /\ Normalized
  /\ HasBare("gugeo")
  /\ Cardinality(ElectiveTokens("gugeo")) = 2
  /\ normalized = << <<"gugeo">> >>

AllScored == "calculateAllModelScores" \in returned

\* the place of model m in the models list
PlaceOf(m) == CHOOSE i \in DOMAIN models : models[i] = m

\* C14 -- calculateAllModelScores returns its entries in descending order of
\* total, and entries of equal total keep the order of the models list.
C14_SortedStable ==
  AllScored =>
    \A i, j \in DOMAIN allScores :
      i < j =>
        /\ allScores[i].total >= allScores[j].total
        /\ allScores[i].total = allScores[j].total =>
             PlaceOf(allScores[i].model) < PlaceOf(allScores[j].model)

\* three models, two of them tied, and the first entry is not the first model
C14_Witness ==
  /\ AllScored
  /\ Len(allScores) = 3
  /\ allScores[1].model # models[1]
  /\ allScores[1].total > allScores[2].total
  /\ allScores[2].total = allScores[3].total
  /\ allScores[2].total > 0

\* C15 -- calculateAllModelScores returns one score object per entry of
\* models; its total is the filtered total under a non-empty filter and the
\* unfiltered total otherwise; every other field is the one of
\* calculateOverallScore.
C15_OnePerModelTotalReplaced ==
  AllScored =>
    /\ Len(allScores) = Len(models)
    /\ \A k \in DOMAIN models :
         Cardinality({i \in DOMAIN allScores : allScores[i].model = models[k]}) = 1
    /\ \A i \in DOMAIN allScores :
         LET o == calculateOverallScore(data, allScores[i].model)
         IN /\ allScores[i].total =
                 IF Len(subjectFilter) > 0 THEN getFilteredTotal(o, subjectFilter)
                 ELSE o.total
            /\ [allScores[i] EXCEPT !.total = o.total] = o

\* a filter is active and an entry's total is a filtered total, not its own sum
C15_Witness ==
  /\ AllScored
  /\ Len(subjectFilter) > 0
  /\ Len(allScores) >= 2
  /\ \E i \in DOMAIN allScores :
       /\ allScores[i].total > 0
       /\ allScores[i].total # calculateOverallScore(data, allScores[i].model).total
       /\ allScores[i].korean > 0

CostDone == "getCostData" \in returned

\* the parents of the filter's tokens
FilterParents == {subjectFilter[i][1] : i \in DOMAIN subjectFilter}

\* the tokens of the sections of model m whose key is a parent of the filter
\* or starts with that parent, each section once
ParentSectionTokens(m, field) ==
  LET secs == UsageOf(tokenUsage, m).sections
  IN Sum([k \in DOMAIN secs |->
            IF secs[k].key[1] \in FilterParents
            THEN IF field = "input" THEN secs[k].input_tokens
                 ELSE secs[k].output_tokens
            ELSE 0])

\* C16 -- with a non-empty filter getCostData sums, for each model, the
\* token-usage sections whose key is the parent of a filter token or starts
\* with "parent-": a filter through an elective token includes the tokens of
\* all sections of that parent.
C16_ParentSectionsCounted ==
  (CostDone /\ Len(subjectFilter) > 0) =>
    \A i \in DOMAIN costData :
      /\ costData[i].inputTokens = ParentSectionTokens(costData[i].model, "input")
      /\ costData[i].outputTokens = ParentSectionTokens(costData[i].model, "output")

\* the model has no per-section breakdown, or no usage entry at all
NoBreakdown(m) == ~UsageOf(tokenUsage, m).hasSections

PricedPlaces(m) == {k \in DOMAIN data : data[k].model_name = m /\ Len(data[k].price) > 0}

\* C18 -- price lookup: a row has the price of the first record, in data
\* order, of its model that has a price; later records do not replace it; a
\* model without a priced record has input and output price 0.
C18_FirstPriceWins ==
  CostDone =>
    \A i \in DOMAIN costData :
      LET P == PricedPlaces(costData[i].model)
      IN IF P = {}
         THEN costData[i].inputPrice = 0 /\ costData[i].outputPrice = 0
         ELSE LET first == CHOOSE k \in P : \A j \in P : k <= j
              IN /\ costData[i].inputPrice = data[first].price[1].input
                 /\ costData[i].outputPrice = data[first].price[1].output

\* a row of a model whose first record has no price and whose priced records
\* differ: the row has the price of the first priced record
C18_Witness ==
  /\ CostDone
  /\ \E i \in DOMAIN costData :
       LET m == costData[i].model
           P == PricedPlaces(m)
       IN /\ \E k \in DOMAIN data : data[k].model_name = m /\ k \notin P /\ \A j \in P : k < j
          /\ \E j, k \in P : data[j].price # data[k].price
          /\ costData[i].inputPrice = PriceA.input
  /\ \E i \in DOMAIN costData :
       /\ PricedPlaces(costData[i].model) = {}
       /\ \E k \in DOMAIN data : data[k].model_name = costData[i].model

\* C19 -- every row has totalCost = inputTokens * inputPrice / 1e6 +
\* outputTokens * outputPrice / 1e6 >= 0 (costs are kept multiplied by 1e6),
\* and a row with a positive cost has an efficiency between 0 and 100.
C19_CostAndEfficiencyRange ==
  CostDone =>
    \A i \in DOMAIN costData :
      LET r == costData[i]
      IN /\ r.totalCost = r.inputTokens * r.inputPrice + r.outputTokens * r.outputPrice
         /\ r.totalCost >= 0
         /\ r.totalCost > 0 =>
              /\ r.efficiency.den > 0
              /\ 0 <= r.efficiency.num
              /\ r.efficiency.num <= 100 * r.efficiency.den

\* a row costing more than 1 and a row costing less than 1, both with an
\* efficiency strictly between 0 and 100
C19_Witness ==
  /\ CostDone
  /\ \E i, j \in DOMAIN costData :
       /\ costData[i].totalCost > Million
       /\ costData[j].totalCost > 0
       /\ costData[j].totalCost < Million
       /\ costData[i].efficiency.num > 0
       /\ costData[j].efficiency.num < 100 * costData[j].efficiency.den
       /\ costData[j].efficiency.num > 70 * costData[j].efficiency.den

\* the positive costs of the rows
PositiveCosts ==
  {costData[i].totalCost : i \in {i \in DOMAIN costData : costData[i].totalCost > 0}}

\* C20 -- maxCost is the largest positive totalCost of the rows when a row has
\* a positive cost, and 1 only when none has; the most expensive row has
\* costNorm = 1.
C20_MaxCostIsLargest ==
  CostDone =>
    IF PositiveCosts = {} THEN maxCost = Million
    ELSE /\ maxCost \in PositiveCosts
         /\ \A c \in PositiveCosts : c <= maxCost

\* score / getMaxScore(subjectFilter) clamped to 0..1, in lowest terms
ClampedScore(score) ==
  LET S == getMaxScore(subjectFilter)
  IN Fraction(IF score < 0 THEN 0 ELSE IF score > S THEN S ELSE score, S)

\* (scoreNorm * 0.7 + (1 - costNorm) * 0.3) * 100 for a row, with costNorm =
\* totalCost / maxCost, in lowest terms
ExpectedEfficiency(r) ==
  LET sn == ClampedScore(r.score)
      cn == Fraction(r.totalCost, maxCost)
  IN Fraction(70 * sn.num * cn.den + 30 * (cn.den - cn.num) * sn.den,
              sn.den * cn.den)

C22_NeverNaN ==
  /\ failed = {}
  /\ AllScored =>
       \A i \in DOMAIN allScores :
         LET o == allScores[i]
         IN /\ o.total >= 0
            /\ (\A k \in DOMAIN o.koreanDetail.electives :
                  o.koreanDetail.electives[k].score = 0) => o.koreanDetail.electiveAvg = 0
            /\ (\A k \in DOMAIN o.mathDetail.electives :
                  o.mathDetail.electives[k].score = 0) => o.mathDetail.electiveAvg = 0
            /\ (\A k \in DOMAIN o.explorationDetail.subjects :
                  o.explorationDetail.subjects[k].score = 0) => o.explorationDetail.average = 0
  /\ CostDone => \A i \in DOMAIN costData : costData[i].efficiency.den > 0

\* the tokens of the filter in the order of TOKENS
Canonical == SelectSeq(TOKENS, LAMBDA t : t \in FilterSet)

C26_EverythingIsNothing ==
  /\ Filtered => filteredTotal = scoreObj.total
  /\ Maxed => maxScore = Pt(450)

\* the parents that have electives
WithElectives == {"gugeo", "suhak", "tamgu"}

\* C27 -- from the empty selection, after any sequence of handleParentToggle
\* and handleChildToggle the selection holds no token twice and no bare token
\* of a parent that has electives; only yeongeo and hanguksa are bare.
C27_SelectionWellFormed ==
  /\ \A i, j \in DOMAIN subjectFilter : i # j => subjectFilter[i] # subjectFilter[j]
  /\ \A i \in DOMAIN subjectFilter :
       IF Len(subjectFilter[i]) = 1
       THEN subjectFilter[i][1] \in {"yeongeo", "hanguksa"}
       ELSE /\ subjectFilter[i][1] \in WithElectives
            /\ Includes(SUBJECT_HIERARCHY(subjectFilter[i][1]), subjectFilter[i][2])

\* a selection of MaxSelected tokens made of a bare token, a whole parent and
\* a single elective, in an order that is not the hierarchy's
C27_Witness ==
  /\ Len(subjectFilter) = MaxSelected
  /\ HasBare("yeongeo")
  /\ getParentState(subjectFilter, "gugeo") = "checked"
  /\ getParentState(subjectFilter, "tamgu") = "indeterminate"
  /\ Len(subjectFilter[1]) > 1
  /\ subjectFilter[1][1] = "tamgu"

\* the tokens of the selection whose parent is not p, in their order
OtherTokens(selected, p) == SelectSeq(selected, LAMBDA t : t[1] # p)

\* how many electives of p the selection holds
SelectedCount(selected, p) ==
  Cardinality({i \in DOMAIN selected : Len(selected[i]) > 1 /\ selected[i][1] = p})

\* C28 -- handleParentToggle on a parent with electives is a master toggle:
\* with all electives of the parent selected it removes them all, otherwise it
\* leaves them all selected; the tokens of the other parents stay; and
\* getParentState is checked iff all electives are selected, unchecked iff
\* none is, indeterminate otherwise.
C28_MasterToggle ==
  [][\A p \in WithElectives :
       /\ HandleParentToggle(p) =>
            /\ IF SelectedCount(subjectFilter, p) = Len(SUBJECT_HIERARCHY(p))
               THEN SelectedCount(subjectFilter', p) = 0
               ELSE SelectedCount(subjectFilter', p) = Len(SUBJECT_HIERARCHY(p))
            /\ OtherTokens(subjectFilter', p) = OtherTokens(subjectFilter, p)
       /\ getParentState(subjectFilter', p) = "checked"
            <=> SelectedCount(subjectFilter', p) = Len(SUBJECT_HIERARCHY(p))
       /\ getParentState(subjectFilter', p) = "unchecked"
            <=> SelectedCount(subjectFilter', p) = 0
       /\ getParentState(subjectFilter', p) = "indeterminate"
            <=> SelectedCount(subjectFilter', p) \in 1..(Len(SUBJECT_HIERARCHY(p)) - 1)]_vars

\* suhak is indeterminate next to a token of another parent: the next parent
\* toggle has to select, not clear
C28_Witness ==
  /\ getParentState(subjectFilter, "suhak") = "indeterminate"
  /\ getParentState(subjectFilter, "gugeo") = "checked"
  /\ Len(subjectFilter) = 3

\* the tokens of the sections of model m that some filter token matches, each
\* section once
MatchedOnce(m, field) ==
  LET secs == UsageOf(tokenUsage, m).sections
  IN Sum([k \in DOMAIN secs |->
            IF \E i \in DOMAIN subjectFilter : Matches(secs[k].key, subjectFilter[i])
            THEN IF field = "input" THEN secs[k].input_tokens ELSE secs[k].output_tokens
            ELSE 0])

\* the tokens of all sections of model m
AllSections(m, field) ==
  LET secs == UsageOf(tokenUsage, m).sections
  IN Sum([k \in DOMAIN secs |->
            IF field = "input" THEN secs[k].input_tokens ELSE secs[k].output_tokens])

\* C29 -- under a filter getCostData adds each section of a model's token
\* usage at most once, so the filtered token totals never exceed the sum over
\* all sections of the model, also with a bare parent token next to one of
\* its elective tokens.
C29_SectionCountedOnce ==
  (CostDone /\ Len(subjectFilter) > 0) =>
    \A i \in DOMAIN costData :
      /\ costData[i].inputTokens = MatchedOnce(costData[i].model, "input")
      /\ costData[i].outputTokens = MatchedOnce(costData[i].model, "output")
      /\ costData[i].inputTokens <= AllSections(costData[i].model, "input")
      /\ costData[i].outputTokens <= AllSections(costData[i].model, "output")

\* ---------------------------------------------------------------- C30

\* a step of fetchData's try block threw: one of the awaited promises was
\* rejected, or extractUniqueValues was given something that is no array
LoadStepThrew ==
  \/ pc.results.state = "rejected"
  \/ pc.questions.state = "rejected"
  \/ pc.results.state = "fulfilled" /\ ~pc.results.isArray

\* the two other loads succeeded and the token-usage load failed
OnlyTokenUsageFailed ==
  /\ pc.warned
  /\ pc.results.state = "fulfilled" /\ pc.results.isArray
  /\ pc.questions.state = "fulfilled"

C23_InputsNotMutated ==
  [][ /\ data' = data
      /\ models' = models
      /\ tokenUsage' = tokenUsage
      /\ (subjectFilter' = subjectFilter => allScores' = allScores)
      /\ allScores' = computeOverallScores(data, models, subjectFilter')
      /\ (subjectFilter' # subjectFilter => filters' = filters)
      /\ (filters' # filters => subjectFilter' = subjectFilter) ]_vars

\* the sort of filteredScores has reversed its copy of overallScores
C23_Witness ==
  /\ filters.sortBy = "score_asc"
  /\ Len(filters.models) = 0
  /\ Len(allScores) > 1
  /\ Len(costData) = Len(allScores)
  /\ allScores[1].total > allScores[Len(allScores)].total
  /\ filteredScores[1].total < filteredScores[Len(filteredScores)].total

\* the total of model m in the overallScores of the current subject filter
CurrentTotal(m) ==
  LET current == computeOverallScores(data, models, subjectFilter)
  IN (CHOOSE sc \in {current[k] : k \in DOMAIN current} : sc.model = m).total

\* C25: in every state of the Dashboard the four memoised values are the
\* ones computed from the current filters.subjects (and the current model
\* filter and sort order): overallScores, maxScore, filteredScores and
\* costData; every cost row carries the total its model has under the
\* current filter and the efficiency computed against the current maximum.
C25_NoStaleDerivation ==
  /\ allScores = computeOverallScores(data, models, subjectFilter)
  /\ maxScore = getMaxScore(subjectFilter)
  /\ filteredScores = computeFilteredScores(allScores, filters).result
  /\ costData = computeCostData(data, filteredScores, tokenUsage, subjectFilter)
  /\ \A k \in DOMAIN filteredScores :
       filteredScores[k].total = CurrentTotal(filteredScores[k].model)
  /\ \A k \in DOMAIN costData : costData[k].score = CurrentTotal(costData[k].model)

\* a subject filter of two tokens is shown for both models after the
\* model filter and the sort order were changed
C25_Witness ==
  /\ Len(subjectFilter) = MaxShown
  /\ Len(filters.models) > 1
  /\ filters.sortBy = "score_asc"
  /\ Len(costData) > 1
  /\ maxScore < Pt(450)

====
